---- MODULE Spec2Model ----
(***************************************************************************)
(* A model of conda_build/render.py and conda_build/utils.py:              *)
(*   - _simplify_to_exact_constraints          (specification SpecSimplify) *)
(*   - finalize_metadata and add_upstream_pins (specification SpecFinal)    *)
(*   - distribute_variants                     (specification SpecDist)     *)
(*   - try_acquire_locks                       (specification SpecLocks)    *)
(*   - get_lock, get_env_dependencies, _filter_run_exports,                *)
(*     _read_specs_from_package, apply_pin_expressions, get_pin_from_build,*)
(*     compute_content_hash              (one specification for each)      *)
(*   - merge_tree, copytree, copy_into   (specification SpecMerge)         *)
(*   - the sibling walk of finalize_metadata (specification SpecWalkFair)  *)
(*                                                                         *)
(* A requirement spec "name version build" is modelled as the sequence of  *)
(* its whitespace-separated tokens, which is what str.split() yields and   *)
(* " ".join() consumes.                                                    *)
(***************************************************************************)
EXTENDS Integers, Sequences, FiniteSets, TLC

VARIABLES
    s_pc,       \* simplifier: "input" | "done"
    s_in,       \* simplifier: the requirements as passed in (section -> list of specs)
    s_req,      \* simplifier: metadata.meta["requirements"] (section -> list of specs)
    s_raised,   \* simplifier: TRUE when ValueError("Conflicting exact pins") was raised
    f_pc,       \* finalize_metadata: the statement reached
    f_m,        \* finalize_metadata: what the MetaData object and its config answer
    f_permit,   \* finalize_metadata: permit_unsatisfiable_variants
    f_world,    \* the run-export payload each package of the channel carries
    f_req0,     \* m.meta["requirements"] on entry
    f_req,      \* m.meta["requirements"]
    f_build,    \* add_upstream_pins: result of _read_upstream_pin_files(m, "build", ...)
    f_host,     \* add_upstream_pins: result of _read_upstream_pin_files(m, "host", ...)
    f_extra,    \* add_upstream_pins: extra_run_specs and extra_run_constrained_specs
    f_calls,    \* every get_env_dependencies call made so far, with what it returned
    f_final,    \* m.final
    f_error,    \* the exception that left finalize_metadata, or "none"
    d_pc,       \* distribute_variants: the statement reached
    d_m,        \* distribute_variants: the template (noarch flag, used variables)
    d_input,    \* distribute_variants: the variants argument
    d_variants, \* distribute_variants: the local 'variants' / all_variants
    d_top_loop, \* distribute_variants: top_loop, the part not yet iterated
    d_rendered, \* distribute_variants: rendered_metadata, in insertion order
    d_result,   \* distribute_variants: the returned list
    l_pc,       \* try_acquire_locks: per caller, the statement reached
    l_locks,    \* try_acquire_locks: per caller, the 'locks' argument
    l_i,        \* try_acquire_locks: per caller, position in the running for loop
    l_tries,    \* try_acquire_locks: per caller, iterations of the while loop begun
    l_counter,  \* filelock: per caller and lock, the handle's lock counter
    l_owner,    \* filelock: per lock file, the caller holding it, or "nobody"
    l_attempt,  \* per caller, the locks acquired in the latest attempt
    l_failed,   \* per caller, TRUE when the latest attempt ended in filelock.Timeout
    g_pc,       \* get_lock: "ready" while the process makes calls
    g_handles,  \* get_lock: the FileLock objects built so far, in order
    g_returned, \* get_lock: per call, the folder asked for and the handle returned
    r_pc,       \* get_env_dependencies: "call" | "returned" | "raised"
    r_in,       \* get_env_dependencies: the arguments and what the template answers
    r_out,      \* get_env_dependencies: what the solver was given and what was returned
    u_pc,       \* a single call of a helper function: "call" | "returned" | "raised"
    u_in,       \* the helper's arguments
    u_out,      \* the helper's return value
    m_pc,       \* merge_tree / copy_into: per process, the statement reached
    m_call,     \* merge_tree / copy_into: per process, the operation and its src
    m_fs,       \* the destination tree: per path, "absent" or who wrote it last
    m_lock,     \* per lock location, the process holding it, or "nobody"
    m_existing, \* merge_tree: per process, the local 'existing'
    m_todo,     \* copytree: per process, the entries of src still to copy
    m_writes,   \* every write made to the destination, with the lock state then
    w_pc,       \* sibling walk of finalize_metadata: the statement reached
    w_in,       \* sibling walk: the job's host requirement names and other_outputs
    w_reqs,     \* sibling walk: the local 'reqs'
    w_to_process, \* sibling walk: the local 'to_process'
    w_seen,     \* sibling walk: the local 'seen'
    w_extra_specs, \* sibling walk: the local 'extra_specs'
    w_visits    \* sibling walk: per sibling, how often the loop body ran on it

simplifyVars == <<s_pc, s_in, s_req, s_raised>>

finalVars == <<f_pc, f_m, f_permit, f_world, f_req0, f_req, f_build, f_host,
               f_extra, f_calls, f_final, f_error>>

distVars == <<d_pc, d_m, d_input, d_variants, d_top_loop, d_rendered, d_result>>

lockVars == <<l_pc, l_locks, l_i, l_tries, l_counter, l_owner, l_attempt, l_failed>>

getLockVars == <<g_pc, g_handles, g_returned>>

resolveVars == <<r_pc, r_in, r_out>>

unitVars == <<u_pc, u_in, u_out>>

mergeVars == <<m_pc, m_call, m_fs, m_lock, m_existing, m_todo, m_writes>>

walkVars == <<w_pc, w_in, w_reqs, w_to_process, w_seen, w_extra_specs, w_visits>>

vars == <<s_pc, s_in, s_req, s_raised,
          f_pc, f_m, f_permit, f_world, f_req0, f_req, f_build, f_host,
          f_extra, f_calls, f_final, f_error,
          d_pc, d_m, d_input, d_variants, d_top_loop, d_rendered, d_result,
          l_pc, l_locks, l_i, l_tries, l_counter, l_owner, l_attempt, l_failed,
          g_pc, g_handles, g_returned,
          r_pc, r_in, r_out,
          u_pc, u_in, u_out,
          m_pc, m_call, m_fs, m_lock, m_existing, m_todo, m_writes,
          w_pc, w_in, w_reqs, w_to_process, w_seen, w_extra_specs, w_visits>>

(***************************************************************************)
(* Generic helpers                                                         *)
(***************************************************************************)
RECURSIVE SeqToSet(_)
SeqToSet(s) == IF s = <<>> THEN {} ELSE {Head(s)} \cup SeqToSet(Tail(s))

(***************************************************************************)
(* utils.ensure_valid_spec and the tokens of a spec                        *)
(***************************************************************************)
\* version tokens that contain one of '>', '<', '*'
RangeVersions == {">=1.0", "1.0.*"}

\* build tokens that contain '*'
GlobBuilds == {"py*"}

HasRangeChar(version) == version \in RangeVersions

BuildHasStar(build) == build \in GlobBuilds

\* spec_needing_star_re matches "name version" with a version made of word
\* characters, dots and dashes only, and no third (build) group; the match is
\* rewritten to "name version.*" unless the spec is python/numpy x.x.
AppendStar(version) == IF version = "1.0" THEN "1.0.*" ELSE version

EnsureValidSpec(spec) ==
    IF Len(spec) = 2 /\ ~HasRangeChar(spec[2])
    THEN <<spec[1], AppendStar(spec[2])>>
    ELSE spec

(***************************************************************************)
(* _simplify_to_exact_constraints                                          *)
(***************************************************************************)
\* deps_dict keys, in insertion order (first occurrence of each name)
RECURSIVE DictNames(_, _)
DictNames(deps, seen) ==
    IF deps = <<>> THEN <<>>
    ELSE LET name == EnsureValidSpec(Head(deps))[1]
         IN  IF name \in seen
             THEN DictNames(Tail(deps), seen)
             ELSE <<name>> \o DictNames(Tail(deps), seen \cup {name})

\* deps_dict[name]: spec_parts[1:] of every occurrence, in order
RECURSIVE DictValues(_, _)
DictValues(deps, name) ==
    IF deps = <<>> THEN <<>>
    ELSE LET parts == EnsureValidSpec(Head(deps))
         IN  (IF parts[1] = name THEN <<Tail(parts)>> ELSE <<>>)
             \o DictValues(Tail(deps), name)

IsExactPin(dep) ==
    /\ Len(dep) > 1
    /\ ~(HasRangeChar(dep[1]) \/ BuildHasStar(dep[2]))

ExactPins(values) == SelectSeq(values, IsExactPin)

NonEmpty(dep) == dep # <<>>

RECURSIVE JoinName(_, _)
JoinName(name, values) ==
    IF values = <<>> THEN <<>>
    ELSE <<(<<name>> \o Head(values))>> \o JoinName(name, Tail(values))

\* a simplifier that keeps the first exact pin without comparing the others
ConflictingPins_KeepFirst(values) == FALSE

\* one iteration of "for name, values in deps_dict.items()":
\* whether it raises, and what it appends to deps_list
ConflictingPins(values) ==
    LET exact_pins == ExactPins(values)
    IN  /\ ~(Len(values) = 1 /\ values[1] = <<>>)
        /\ exact_pins # <<>>
        /\ \E i \in 1..Len(exact_pins) : exact_pins[i] # exact_pins[1]

\* a simplifier that collapses only when every occurrence is an exact pin
SimplifiedName_AllExact(name, values) ==
    LET exact_pins == ExactPins(values)
    IN  IF Len(values) = 1 /\ values[1] = <<>>
        THEN <<(<<name>>)>>
        ELSE IF exact_pins # <<>> /\ Len(exact_pins) = Len(values)
        THEN <<(<<name>> \o exact_pins[1])>>
        ELSE JoinName(name, SelectSeq(values, NonEmpty))

SimplifiedName(name, values) ==
    LET exact_pins == ExactPins(values)
    IN  IF Len(values) = 1 /\ values[1] = <<>>
        THEN <<(<<name>>)>>
        ELSE IF exact_pins # <<>>
        THEN <<(<<name>> \o exact_pins[1])>>
        ELSE JoinName(name, SelectSeq(values, NonEmpty))

RECURSIVE DepsListOver(_, _)
DepsListOver(names, deps) ==
    IF names = <<>> THEN <<>>
    ELSE SimplifiedName(Head(names), DictValues(deps, Head(names)))
         \o DepsListOver(Tail(names), deps)

DepsList(deps) == DepsListOver(DictNames(deps, {}), deps)

SectionRaises(deps) ==
    \E name \in SeqToSet(DictNames(deps, {})) :
        ConflictingPins(DictValues(deps, name))

\* the value of requirements[section] after the section's loop body
SimplifiedSection(deps) ==
    IF deps # <<>> /\ DepsList(deps) # <<>> THEN DepsList(deps) ELSE deps

\* the sections are handled in order; a raise leaves the earlier sections
\* rewritten (the dict is mutated in place) and the later ones untouched
FirstRaising(req) ==
    IF SectionRaises(req["build"]) THEN 1
    ELSE IF SectionRaises(req["host"]) THEN 2
    ELSE IF SectionRaises(req["run"]) THEN 3
    ELSE 4

SectionIndex(section) ==
    IF section = "build" THEN 1 ELSE IF section = "host" THEN 2 ELSE 3

SimplifyToExactConstraints(req) ==
    [section \in DOMAIN req |->
        IF SectionIndex(section) < FirstRaising(req)
        THEN SimplifiedSection(req[section])
        ELSE req[section]]

\* ---- inputs of the simplifier ----
MaxDeps == 3

SpecUniverse ==
    { <<"foo">>, <<"foo", "1.0">>, <<"foo", ">=1.0">>,
      <<"foo", "1.0", "0">>, <<"foo", "1.0", "1">>, <<"foo", "1.0", "py*">>,
      <<"foo", ">=1.0", "0">>,
      <<"bar">>, <<"bar", "1.0", "0">> }

TotalDeps(req) == Len(req["build"]) + Len(req["host"]) + Len(req["run"])

SimplifyIdle ==
    /\ s_pc = "idle"
    /\ s_in = [section \in {"build", "host", "run"} |-> <<>>]
    /\ s_req = [section \in {"build", "host", "run"} |-> <<>>]
    /\ s_raised = FALSE

SimplifyInit ==
    /\ s_pc = "input"
    /\ s_in = [section \in {"build", "host", "run"} |-> <<>>]
    /\ s_req = [section \in {"build", "host", "run"} |-> <<>>]
    /\ s_raised = FALSE

\* the caller fills the requirement sections
AddDep ==
    /\ s_pc = "input"
    /\ TotalDeps(s_in) < MaxDeps
    /\ \E section \in {"build", "host", "run"}, spec \in SpecUniverse :
          /\ s_in' = [s_in EXCEPT ![section] = Append(@, spec)]
          /\ s_req' = s_in'
    /\ UNCHANGED <<s_pc, s_raised>>
    /\ UNCHANGED <<finalVars, distVars, lockVars, getLockVars, resolveVars,
                   unitVars,
                   mergeVars, walkVars>>

Simplify ==
    /\ s_pc = "input"
    /\ s_req' = SimplifyToExactConstraints(s_req)
    /\ s_raised' = (FirstRaising(s_req) < 4)
    /\ s_pc' = "done"
    /\ UNCHANGED s_in
    /\ UNCHANGED <<finalVars, distVars, lockVars, getLockVars, resolveVars,
                   unitVars,
                   mergeVars, walkVars>>

SimplifyNext == AddDep \/ Simplify

(***************************************************************************)
(* The channel: packages, their dependencies and their run-export payloads  *)
(***************************************************************************)
Categories == {"strong", "weak", "noarch", "strong_constrains", "weak_constrains"}

RT == <<"rt", ">=1.0">>
WK == <<"wk", ">=1.0">>
NA == <<"na">>
SC == <<"sc", "1.0">>
WC == <<"wc", "1.0">>
ZRT == <<"zrt">>

NoExports == [c \in Categories |-> {}]

ExportUnder(cats, spec) == [c \in Categories |-> IF c \in cats THEN {spec} ELSE {}]

MixedExports ==
    [c \in Categories |->
        IF c = "strong" THEN {RT}
        ELSE IF c = "weak" THEN {WK}
        ELSE IF c = "noarch" THEN {NA}
        ELSE IF c = "strong_constrains" THEN {SC}
        ELSE {WC}]

\* the Run-Export Sets the compiler package "cc" may declare
BuildExportMenu ==
    {NoExports, MixedExports, ExportUnder({"strong", "weak"}, RT)}
        \cup {ExportUnder({c}, RT) : c \in Categories}

\* the Run-Export Sets the library package "lib" may declare
HostExportMenu ==
    {NoExports, MixedExports}
        \cup {ExportUnder({c}, RT) : c \in {"strong", "weak", "noarch", "weak_constrains"}}

\* what the solver pulls in besides the requested names
DependsOn(name) == IF name \in {"cc", "lib"} THEN {"zlib"} ELSE {}

PackageRecord(name) == [name |-> name, version |-> "1.0", build |-> "0"]

\* environ.get_package_records on success: a record for every requested name
\* and for every package those depend on
GetPackageRecords(dependencies) ==
    LET requested == {spec[1] : spec \in dependencies}
    IN  {PackageRecord(n) : n \in requested \cup UNION {DependsOn(r) : r \in requested}}

\* package_record_to_requirement: "name version build"
PackageRecordToRequirement(prec) == <<prec.name, prec.version, prec.build>>

\* the solver's outcomes and the diagnostic get_env_dependencies keeps:
\* ", ".join(e.packages) for DependencyNeedsBuildingError, e.message otherwise
SolverOutcomes == {"ok", "unsatisfiable", "needs_building"}

Diagnostic(outcome) ==
    IF outcome = "needs_building" THEN "lib, zlib"
    ELSE IF outcome = "unsatisfiable" THEN "unsatisfiable: lib"
    ELSE "None"

\* Python truthiness of a diagnostic: None, [] and "" are false
Truthy(unsat) == unsat \notin {"None", "[]", ""}

(***************************************************************************)
(* _categorize_deps                                                        *)
(***************************************************************************)
\* exclude_pattern is the alternation of "^name(\s|$)" over a set of names
\* (None when the set is empty): it matches a spec by its name
ExcludeMatch(exclude, spec) == spec[1] \in exclude

CategorizeDeps(m, specs, exclude, variant) ==
    LET kept == {spec \in specs : ~ExcludeMatch(exclude, spec)}
    IN  [subpackages |->
            {<<spec[1], m.version>> : spec \in {x \in kept : x[1] \in m.outputs}},
         dependencies |->
            {spec \in kept : spec[1] \notin m.outputs}
              \cup {<<spec[1], variant[spec[1]]>> :
                      spec \in {x \in kept : Len(x) = 1 /\ x[1] \in DOMAIN variant}},
         pass_through_deps |-> {spec \in specs : ExcludeMatch(exclude, spec)}]

(***************************************************************************)
(* get_env_dependencies                                                    *)
(***************************************************************************)
\* a handler that re-raises whatever the flag says
SolverFailureRaises_Always(permit_unsatisfiable_variants) == TRUE

\* except (UnsatisfiableError, DependencyNeedsBuildingError): raise unless permitted
SolverFailureRaises(permit_unsatisfiable_variants) == ~permit_unsatisfiable_variants

\* unsat = ", ".join(e.packages) if hasattr(e, "packages") else e.message
CapturedDiagnostic(outcome) == Diagnostic(outcome)

GetEnvDependencies(m, req, env, variant, exclude, permit, extra_specs, outcome) ==
    LET cat == CategorizeDeps(m, req[env], exclude, variant)
        dependencies == cat.dependencies \cup extra_specs
        failed == outcome # "ok"
        precs == IF failed THEN {} ELSE GetPackageRecords(dependencies)
        specs == {PackageRecordToRequirement(prec) : prec \in precs}
        combined == specs \cup cat.subpackages \cup cat.pass_through_deps
    IN  IF failed /\ SolverFailureRaises(permit)
        THEN [env |-> env, solver_input |-> dependencies, outcome |-> outcome,
              raised |-> TRUE, deps |-> {}, precs |-> {}, unsat |-> "None"]
        ELSE [env |-> env, solver_input |-> dependencies, outcome |-> outcome,
              raised |-> FALSE,
              deps |-> IF combined # {} THEN combined ELSE req[env],
              precs |-> precs,
              unsat |-> IF failed THEN CapturedDiagnostic(outcome) ELSE "None"]

(***************************************************************************)
(* _filter_run_exports, get_upstream_pins, _read_upstream_pin_files        *)
(***************************************************************************)
IsPrefix(s, t) == Len(s) < Len(t) /\ SubSeq(t, 1, Len(s)) = s

Ignored_ExactOnly(spec, ignore_list) ==
    \E ignore_spec \in ignore_list : ignore_spec = <<"*">> \/ spec = ignore_spec

\* ignore_spec == "*" or spec == ignore_spec or spec.startswith(ignore_spec + " ")
Ignored(spec, ignore_list) ==
    \E ignore_spec \in ignore_list :
        \/ ignore_spec = <<"*">>
        \/ spec = ignore_spec
        \/ IsPrefix(ignore_spec, spec)

FilterRunExports(run_exports, ignore_list) ==
    [c \in Categories |-> {spec \in run_exports[c] : ~Ignored(spec, ignore_list)}]

ContributingRecords_All(m, req, precs, env) == precs

\* the records whose run-exports are read: explicit requirements of the
\* environment that are not named in build/ignore_run_exports_from
ContributingRecords(m, req, precs, env) ==
    {prec \in precs :
        /\ prec.name \in {spec[1] : spec \in req[env]}
        /\ prec.name \notin m.ignore_run_exports_from}

GetUpstreamPins(m, req, world, precs, env) ==
    LET contributing == ContributingRecords(m, req, precs, env)
    IN  [c \in Categories |->
            UNION {FilterRunExports(world[prec.name], m.ignore_run_exports)[c] :
                     prec \in contributing}]

ReadUpstreamPinFiles(m, req, world, env, permit, exclude, extra_specs, outcome) ==
    LET r == GetEnvDependencies(m, req, env, m.variant, exclude, permit,
                                extra_specs, outcome)
    IN  [call |-> r,
         deps |-> IF r.deps # {} THEN r.deps ELSE req[env],
         unsat |-> r.unsat,
         extra_run_specs |->
            IF r.raised THEN NoExports
            ELSE GetUpstreamPins(m, req, world, r.precs, env)]

(***************************************************************************)
(* add_upstream_pins                                                       *)
(***************************************************************************)
\* a Python value that is either None or a set
PySet(items) == [none |-> FALSE, items |-> items]

PyNone == [none |-> TRUE, items |-> {}]

PyTruthy(value) == ~value.none /\ value.items # {}

\* set(build_deps or []).update(more): set.update mutates and returns None
SetThenUpdate(build_deps, more) == PyNone

\* extra_run_specs when there is no host section (lines 527-550)
RunSpecsNonCross(m, from_build) ==
    IF m.noarch
    THEN IF m.build_is_host THEN from_build["noarch"] ELSE {}
    ELSE from_build["strong"]
            \cup (IF m.build_is_host THEN from_build["weak"] ELSE {})

\* a job whose weak build exports reach run without build_is_host
RunSpecsCross_BuildWeak(m, from_build, from_host) ==
    IF m.noarch
    THEN from_host["noarch"]
    ELSE from_host["strong"] \cup from_host["weak"]
            \cup from_build["strong"] \cup from_build["weak"]

\* extra_run_specs when there is a host section (lines 510-518)
RunSpecsCross(m, from_build, from_host) ==
    IF m.noarch
    THEN from_host["noarch"]
    ELSE from_host["strong"] \cup from_host["weak"] \cup from_build["strong"]

\* extra_run_constrained_specs (lines 512, 519-523, 530, 536, 540-547)
RunConstrainedSpecs(m, from_build, from_host) ==
    IF m.noarch THEN {}
    ELSE IF m.is_cross
    THEN from_host["strong_constrains"] \cup from_host["weak_constrains"]
            \cup from_build["strong_constrains"]
    ELSE from_build["strong_constrains"]
            \cup (IF m.build_is_host THEN from_build["weak_constrains"] ELSE {})

\* a propagator that files the constraints under run
ExtraRunSpecs_WithConstraints(m, from_build, from_host) ==
    (IF m.is_cross
     THEN RunSpecsCross(m, from_build, from_host)
     ELSE RunSpecsNonCross(m, from_build))
        \cup RunConstrainedSpecs(m, from_build, from_host)

ExtraRunSpecs(m, from_build, from_host) ==
    IF m.is_cross
    THEN RunSpecsCross(m, from_build, from_host)
    ELSE RunSpecsNonCross(m, from_build)

\* build_deps as it reaches the final loop over the sections
BuildDepsAfter(m, build_deps, from_build) ==
    IF m.is_cross THEN PySet(build_deps)
    ELSE IF m.noarch
    THEN IF m.build_is_host
         THEN SetThenUpdate(build_deps, from_build["noarch"])
         ELSE PySet(build_deps)
    ELSE IF m.build_is_host
         THEN SetThenUpdate(build_deps, from_build["weak"])
         ELSE PySet(build_deps)

\* host_deps as it reaches the final loop over the sections
HostDepsAfter(m, host_deps, from_build) ==
    IF m.is_cross THEN PySet(host_deps)
    ELSE IF ~m.noarch /\ ~m.build_is_host THEN PySet(from_build["strong"])
    ELSE PySet({})

\* "if deps: requirements[section] = list(deps)"
WriteSection(old, deps) == IF PyTruthy(deps) THEN deps.items ELSE old

\* a propagator that leaves the host list as the recipe wrote it
HostReqsExtended_NotExtended(host_reqs, from_build) == host_reqs

\* host_reqs.extend(extra_run_specs_from_build.get("strong", []))
HostReqsExtended(host_reqs, from_build) == host_reqs \cup from_build["strong"]

(***************************************************************************)
(* finalize_metadata                                                       *)
(***************************************************************************)
Excludes(m) == m.ignore_version \ m.pin_run_as_build

OutputExcludes(m) == IF m.has_other_outputs THEN m.other_outputs ELSE {}

\* exclude_pattern handed to add_upstream_pins
FirstExcludePattern(m) == Excludes(m) \cup OutputExcludes(m)

\* exclude_pattern of the re-resolution of the pinning environment
SecondExcludePattern(m) ==
    IF OutputExcludes(m) # {} THEN OutputExcludes(m) ELSE FirstExcludePattern(m)

PinningEnv(m) == IF m.is_cross THEN "host" ELSE "build"

RECURSIVE SetToSeq(_)
SetToSeq(S) ==
    IF S = {} THEN <<>>
    ELSE LET x == CHOOSE y \in S : TRUE IN <<x>> \o SetToSeq(S \ {x})

AsLists(req) == [section \in {"build", "host", "run"} |-> SetToSeq(req[section])]

\* "if build_unsat or host_unsat: m.final = False else: m.final = True";
\* the diagnostic of the re-resolution was bound to "_" and is not consulted
IsFinal(build_unsat, host_unsat, pinning_unsat) ==
    ~(Truthy(build_unsat) \/ Truthy(host_unsat))

NoCall ==
    [env |-> "none", solver_input |-> {}, outcome |-> "ok", raised |-> FALSE,
     deps |-> {}, precs |-> {}, unsat |-> "None"]

NoResult ==
    [call |-> NoCall, deps |-> {}, unsat |-> "None", extra_run_specs |-> NoExports]

\* lines 635-636 and 825: a skipped job is marked final, then the test of
\* is_top_level, which only the other branch assigns, raises
FinalizeSkipped ==
    /\ f_pc = "start"
    /\ f_m.skip
    /\ f_final' = TRUE
    /\ f_error' = "UnboundLocalError"
    /\ f_pc' = "raised"
    /\ UNCHANGED <<f_m, f_permit, f_world, f_req0, f_req, f_build, f_host,
                   f_extra, f_calls>>
    /\ UNCHANGED <<simplifyVars, distVars, lockVars, getLockVars, resolveVars,
                   unitVars,
                   mergeVars, walkVars>>

\* add_upstream_pins, lines 476-483
ResolveBuild ==
    /\ f_pc = "start"
    /\ ~f_m.skip
    /\ \E outcome \in SolverOutcomes :
        LET b == ReadUpstreamPinFiles(f_m, f_req, f_world, "build", f_permit,
                     FirstExcludePattern(f_m),
                     IF f_m.is_cross THEN {} ELSE f_m.extra_specs, outcome)
        IN  /\ outcome = "ok" \/ b.call.solver_input # {}
            /\ f_calls' = Append(f_calls, b.call)
            /\ IF b.call.raised
               THEN /\ f_pc' = "raised"
                    /\ f_error' = outcome
                    /\ UNCHANGED f_build
               ELSE /\ f_pc' = IF f_m.is_cross THEN "host" ELSE "merge"
                    /\ f_build' = b
                    /\ UNCHANGED f_error
    /\ UNCHANGED <<f_m, f_permit, f_world, f_req0, f_req, f_host, f_extra, f_final>>
    /\ UNCHANGED <<simplifyVars, distVars, lockVars, getLockVars, resolveVars,
                   unitVars,
                   mergeVars, walkVars>>

\* add_upstream_pins, lines 486-509
ResolveHost ==
    /\ f_pc = "host"
    /\ \E outcome \in SolverOutcomes :
        LET extended == [f_req EXCEPT
                            !["host"] = HostReqsExtended(@, f_build.extra_run_specs)]
            h == ReadUpstreamPinFiles(f_m, extended, f_world, "host", f_permit,
                     FirstExcludePattern(f_m), f_m.extra_specs, outcome)
        IN  /\ outcome = "ok" \/ h.call.solver_input # {}
            /\ f_req' = extended
            /\ f_calls' = Append(f_calls, h.call)
            /\ IF h.call.raised
               THEN /\ f_pc' = "raised"
                    /\ f_error' = outcome
                    /\ UNCHANGED f_host
               ELSE /\ f_pc' = "merge"
                    /\ f_host' = h
                    /\ UNCHANGED f_error
    /\ UNCHANGED <<f_m, f_permit, f_world, f_req0, f_build, f_extra, f_final>>
    /\ UNCHANGED <<simplifyVars, distVars, lockVars, getLockVars, resolveVars,
                   unitVars,
                   mergeVars, walkVars>>

\* add_upstream_pins, lines 510-569
MergeRunExports ==
    /\ f_pc = "merge"
    /\ LET from_build == f_build.extra_run_specs
           from_host == f_host.extra_run_specs
           extra_run_specs == ExtraRunSpecs(f_m, from_build, from_host)
           extra_run_constrained_specs == RunConstrainedSpecs(f_m, from_build, from_host)
           build_deps == BuildDepsAfter(f_m, f_build.deps, from_build)
           host_deps == HostDepsAfter(f_m, f_host.deps, from_build)
           run_deps == PySet(extra_run_specs \cup f_req["run"])
           run_constrained_deps ==
               PySet(extra_run_constrained_specs \cup f_req["run_constrained"])
       IN  /\ f_extra' = [run |-> extra_run_specs,
                          run_constrained |-> extra_run_constrained_specs]
           /\ f_req' = [build |-> WriteSection(f_req["build"], build_deps),
                        host |-> WriteSection(f_req["host"], host_deps),
                        run |-> WriteSection(f_req["run"], run_deps),
                        run_constrained |->
                            WriteSection(f_req["run_constrained"], run_constrained_deps)]
    /\ f_host' = IF f_m.is_cross THEN f_host ELSE [f_host EXCEPT !.unsat = "[]"]
    /\ f_pc' = "pinning"
    /\ UNCHANGED <<f_m, f_permit, f_world, f_req0, f_build, f_calls, f_final, f_error>>
    /\ UNCHANGED <<simplifyVars, distVars, lockVars, getLockVars, resolveVars,
                   unitVars,
                   mergeVars, walkVars>>

\* finalize_metadata, lines 727-770
ReResolvePinning ==
    /\ f_pc = "pinning"
    /\ \E outcome \in SolverOutcomes :
        LET r == GetEnvDependencies(f_m, f_req, PinningEnv(f_m), f_m.variant,
                     SecondExcludePattern(f_m), f_permit, f_m.extra_specs, outcome)
        IN  /\ outcome = "ok" \/ r.solver_input # {}
            /\ f_calls' = Append(f_calls, r)
            /\ IF r.raised
               THEN /\ f_pc' = "raised"
                    /\ f_error' = outcome
                    /\ UNCHANGED f_req
               ELSE /\ f_pc' = "finish"
                    /\ f_req' = [f_req EXCEPT
                                   ![PinningEnv(f_m)] = r.deps,
                                   !["run"] = {EnsureValidSpec(spec) : spec \in @}]
                    /\ UNCHANGED f_error
    /\ UNCHANGED <<f_m, f_permit, f_world, f_req0, f_build, f_host, f_extra, f_final>>
    /\ UNCHANGED <<simplifyVars, distVars, lockVars, getLockVars, resolveVars,
                   unitVars,
                   mergeVars, walkVars>>

\* finalize_metadata, lines 810-827
Finish ==
    /\ f_pc = "finish"
    /\ LET lists == AsLists(f_req)
           simplified == SimplifyToExactConstraints(lists)
       IN  IF FirstRaising(lists) < 4
           THEN /\ f_pc' = "raised"
                /\ f_error' = "ValueError"
                /\ f_req' = [section \in DOMAIN f_req |->
                               IF section = "run_constrained" THEN f_req[section]
                               ELSE SeqToSet(simplified[section])]
                /\ UNCHANGED f_final
           ELSE /\ f_pc' = "done"
                /\ f_req' = [section \in DOMAIN f_req |->
                               IF section = "run_constrained" THEN f_req[section]
                               ELSE SeqToSet(simplified[section])]
                /\ f_final' = IsFinal(f_build.unsat, f_host.unsat,
                                      f_calls[Len(f_calls)].unsat)
                /\ UNCHANGED f_error
    /\ UNCHANGED <<f_m, f_permit, f_world, f_req0, f_build, f_host, f_extra, f_calls>>
    /\ UNCHANGED <<simplifyVars, distVars, lockVars, getLockVars, resolveVars,
                   unitVars,
                   mergeVars, walkVars>>

\* ---- inputs of finalize_metadata ----
HostChoices(is_cross) ==
    IF is_cross THEN {{}, {<<"lib">>}, {<<"lib">>, <<"sib">>}} ELSE {{}}

Metadata(skip, is_cross, noarch, build_is_host, ignore_from, ignore_specs) ==
    [skip |-> skip, is_cross |-> is_cross, noarch |-> noarch,
     build_is_host |-> build_is_host,
     version |-> "1.0",
     outputs |-> {"sib"},
     has_other_outputs |-> TRUE,
     other_outputs |-> {"sib"},
     ignore_version |-> {},
     pin_run_as_build |-> {},
     variant |-> <<>>,
     extra_specs |-> {},
     ignore_run_exports_from |-> ignore_from,
     ignore_run_exports |-> ignore_specs]

World(build_exports, host_exports) ==
    [name \in {"cc", "lib", "zlib", "sib", "rt", "wk", "na"} |->
        IF name = "cc" THEN build_exports
        ELSE IF name = "lib" THEN host_exports
        ELSE IF name = "zlib" THEN ExportUnder({"strong"}, ZRT)
        ELSE NoExports]

FinalizeIdle ==
    /\ f_pc = "idle"
    /\ f_m = Metadata(FALSE, FALSE, FALSE, FALSE, {}, {})
    /\ f_permit = FALSE
    /\ f_world = World(NoExports, NoExports)
    /\ f_req0 = [section \in {"build", "host", "run", "run_constrained"} |-> {}]
    /\ f_req = f_req0
    /\ f_build = NoResult
    /\ f_host = NoResult
    /\ f_extra = [run |-> {}, run_constrained |-> {}]
    /\ f_calls = <<>>
    /\ f_final = FALSE
    /\ f_error = "none"

FinalizeInit ==
    /\ f_pc = "start"
    /\ f_permit \in BOOLEAN
    /\ \E skip, is_cross, noarch, build_is_host \in BOOLEAN,
          ignore_from \in {{}, {"cc"}},
          ignore_specs \in {{}, {<<"rt">>}} :
          /\ skip => (~is_cross /\ ~noarch /\ ~build_is_host
                        /\ ignore_from = {} /\ ignore_specs = {})
          /\ f_m = Metadata(skip, is_cross, noarch, build_is_host,
                            ignore_from, ignore_specs)
    /\ \E build_exports \in BuildExportMenu, host_exports \in HostExportMenu :
          /\ (f_m.skip \/ ~f_m.is_cross) => host_exports = NoExports
          /\ f_m.skip => build_exports = NoExports
          /\ f_world = World(build_exports, host_exports)
    /\ \E host \in HostChoices(f_m.is_cross), run \in {{}, {RT}} :
          /\ f_m.skip => run = {}
          /\ f_req0 = [build |-> {<<"cc">>}, host |-> host, run |-> run,
                       run_constrained |-> {}]
    /\ f_req = f_req0
    /\ f_build = NoResult
    /\ f_host = NoResult
    /\ f_extra = [run |-> {}, run_constrained |-> {}]
    /\ f_calls = <<>>
    /\ f_final = FALSE
    /\ f_error = "none"

FinalizeNext ==
    \/ FinalizeSkipped
    \/ ResolveBuild
    \/ ResolveHost
    \/ MergeRunExports
    \/ ReResolvePinning
    \/ Finish

(***************************************************************************)
(* render.distribute_variants                                              *)
(*                                                                         *)
(* A variant is a record over the keys python, numpy and target_platform.  *)
(* The template answers which of these keys it uses and whether it is      *)
(* noarch.  Every variant of the matrix carries a python value.            *)
(***************************************************************************)
MaxVariants == 3

VariantKeys == {"python", "numpy", "target_platform"}

PythonVersions == {"3.9", "3.10"}

VariantUniverse ==
    [python : PythonVersions, numpy : {"1.26", "2.0"},
     target_platform : {"linux-64", "osx-64"}]

VersionOrder_AsText(version) ==
    CASE version = "3.9"  -> <<3, 9>>
      [] version = "3.10" -> <<3, 1>>

\* VersionOrder(key.split(" ")[0]): the dot-separated numeric components
VersionOrder(version) ==
    CASE version = "3.9"  -> <<3, 9>>
      [] version = "3.10" -> <<3, 10>>

VersionLess(a, b) ==
    \/ a[1] < b[1]
    \/ a[1] = b[1] /\ a[2] < b[2]

\* sorted({python of each variant}, key=VersionOrder)[-1]
NewestPython(variants) ==
    LET versions == {variants[i].python : i \in DOMAIN variants}
    IN  CHOOSE v \in versions :
            \A w \in versions : ~VersionLess(VersionOrder(v), VersionOrder(w))

\* variants.filter_by_key_value: the variants whose value under key is value
FilterByKeyValue(variants, key, value) ==
    SelectSeq(variants, LAMBDA variant : variant[key] = value)

\* the matrix distribute_variants works on after the noarch reduction
NoarchReduction(m, variants) ==
    IF m.noarch
    THEN FilterByKeyValue(variants, "python", NewestPython(variants))
    ELSE variants

\* MetaData.get_used_loop_vars / MetaData.get_used_vars: the used-variables
\* set of the template, determined outside render.py
GetUsedLoopVars(m) == m.used

GetUsedVars(m) == m.used

Project(variant, keys) == [key \in keys |-> variant[key]]

\* MetaData.get_reduced_variant_set: one representative full variant for
\* each distinct projection of the matrix onto used_variables, in matrix order
RECURSIVE ReducedFrom(_, _, _)
ReducedFrom(variants, used_variables, seen) ==
    IF variants = <<>> THEN <<>>
    ELSE LET projection == Project(Head(variants), used_variables)
         IN  IF projection \in seen
             THEN ReducedFrom(Tail(variants), used_variables, seen)
             ELSE <<Head(variants)>> \o
                  ReducedFrom(Tail(variants), used_variables, seen \cup {projection})

GetReducedVariantSet(variants, used_variables) ==
    ReducedFrom(variants, used_variables, {})

\* for key, values in conform_dict.items(): filter_by_key_value(...) or the
\* unfiltered list when the filter leaves nothing
RECURSIVE ConformOver(_, _, _)
ConformOver(variants, keys, variant) ==
    IF keys = {} THEN variants
    ELSE LET key == CHOOSE k \in keys : TRUE
             filtered == FilterByKeyValue(variants, key, variant[key])
         IN  ConformOver(IF filtered # <<>> THEN filtered ELSE variants,
                         keys \ {key}, variant)

ConformedVariants(all_variants, used_variables, variant) ==
    ConformOver(all_variants, used_variables, variant)

\* mv.dist(): name-version-build of the clone
Dist(mv) == "pkg-1.0-0"

JobKey_DistAndPlatform(m, mv) ==
    <<Dist(mv), mv.variant.target_platform>>

\* the key under which a clone is stored in rendered_metadata
JobKey(m, mv) ==
    <<Dist(mv), mv.variant.target_platform, Project(mv.variant, GetUsedVars(m))>>

\* rendered_metadata[key] = value on an insertion-ordered dict
DictSet(dict, key, value) ==
    IF \E i \in DOMAIN dict : dict[i].key = key
    THEN [i \in DOMAIN dict |->
             IF dict[i].key = key THEN [key |-> key, value |-> value] ELSE dict[i]]
    ELSE Append(dict, [key |-> key, value |-> value])

RenderedValues(dict) == [i \in DOMAIN dict |-> dict[i].value]

RECURSIVE SeqsUpTo(_, _)
SeqsUpTo(S, n) ==
    IF n = 0 THEN {<<>>}
    ELSE LET shorter == SeqsUpTo(S, n - 1)
         IN  shorter \cup {Append(s, x) : s \in shorter, x \in S}

DistIdle ==
    /\ d_pc = "idle"
    /\ d_m = [noarch |-> FALSE, used |-> {}]
    /\ d_input = <<>>
    /\ d_variants = <<>>
    /\ d_top_loop = <<>>
    /\ d_rendered = <<>>
    /\ d_result = <<>>

DistInit ==
    /\ d_pc = "start"
    /\ d_m \in [noarch : BOOLEAN, used : SUBSET VariantKeys]
    /\ d_input \in SeqsUpTo(VariantUniverse, MaxVariants) \ {<<>>}
    /\ d_variants = d_input
    /\ d_top_loop = <<>>
    /\ d_rendered = <<>>
    /\ d_result = <<>>

\* lines 885-915: noarch reduction, used loop variables, top_loop
ReduceVariants ==
    /\ d_pc = "start"
    /\ LET variants == NoarchReduction(d_m, d_input)
       IN  /\ d_variants' = variants
           /\ d_top_loop' = GetReducedVariantSet(variants, GetUsedLoopVars(d_m))
    /\ d_pc' = "loop"
    /\ UNCHANGED <<d_m, d_input, d_rendered, d_result>>
    /\ UNCHANGED <<simplifyVars, finalVars, lockVars, getLockVars, resolveVars,
                   unitVars,
                   mergeVars, walkVars>>

\* lines 917-981: one iteration of "for variant in top_loop"; stopped tells
\* whether parse_until_resolved raised SystemExit or CondaBuildUserError,
\* which the except clause swallows
RenderClone ==
    /\ d_pc = "loop"
    /\ d_top_loop # <<>>
    /\ \E stopped \in BOOLEAN :
          LET variant == Head(d_top_loop)
              mv == [variant  |-> variant,
                     variants |-> ConformedVariants(d_variants,
                                                    GetUsedLoopVars(d_m), variant),
                     stopped  |-> stopped]
          IN  d_rendered' = DictSet(d_rendered, JobKey(d_m, mv), mv)
    /\ d_top_loop' = Tail(d_top_loop)
    /\ UNCHANGED <<d_pc, d_m, d_input, d_variants, d_result>>
    /\ UNCHANGED <<simplifyVars, finalVars, lockVars, getLockVars, resolveVars,
                   unitVars,
                   mergeVars, walkVars>>

\* lines 966-972: parse_until_resolved raises an exception other than
\* SystemExit and CondaBuildUserError; nothing catches it
PropagateError ==
    /\ d_pc = "loop"
    /\ d_top_loop # <<>>
    /\ d_pc' = "raised"
    /\ UNCHANGED <<d_m, d_input, d_variants, d_top_loop, d_rendered, d_result>>
    /\ UNCHANGED <<simplifyVars, finalVars, lockVars, getLockVars, resolveVars,
                   unitVars,
                   mergeVars, walkVars>>

\* line 985: return list(rendered_metadata.values())
ReturnJobs ==
    /\ d_pc = "loop"
    /\ d_top_loop = <<>>
    /\ d_result' = RenderedValues(d_rendered)
    /\ d_pc' = "done"
    /\ UNCHANGED <<d_m, d_input, d_variants, d_top_loop, d_rendered>>
    /\ UNCHANGED <<simplifyVars, finalVars, lockVars, getLockVars, resolveVars,
                   unitVars,
                   mergeVars, walkVars>>

DistNext ==
    \/ ReduceVariants
    \/ RenderClone
    \/ PropagateError
    \/ ReturnJobs

(***************************************************************************)
(* utils.try_acquire_locks                                                 *)
(*                                                                         *)
(* Two callers, each with its own filelock handles (get_lock builds a new  *)
(* handle per call) on the lock files it asks for.  A handle counts its    *)
(* acquisitions; the file is given up when the count returns to zero, and  *)
(* releasing a handle that is not locked does nothing.                     *)
(***************************************************************************)
MaxAttempts == 2

Callers == {"p1", "p2"}

LockFiles == {"A", "B"}

LockLists == {<<"A">>, <<"B">>, <<"A", "B">>, <<"B", "A">>}

Free == "nobody"

\* lock.acquire(timeout=0.1) returns when the file is free or already held
\* through this handle, and raises filelock.Timeout while another caller holds it
CanAcquire(owner, caller) == owner = Free \/ owner = caller

\* lock.release() on the handle's counter
Released(counter) == IF counter > 0 THEN counter - 1 ELSE 0

OwnerAfterRelease(owner, caller, counter) ==
    IF owner = caller /\ Released(counter) = 0 THEN Free ELSE owner

AcquireTimesOut_Never(owner, caller) == FALSE

\* lock.acquire(timeout=0.1) gives up after 0.1 s of polling a file that
\* another caller holds
AcquireTimesOut(owner, caller) == ~CanAcquire(owner, caller)

LastLock_First(i, locks) == i = 1

\* "for lock in locks" is exhausted: the else branch breaks out of the while
LastLock(i, locks) == i = Len(locks)

HandlerReleases_Nothing(locks) == <<>>

\* except filelock.Timeout: for lock in locks: lock.release()
HandlerReleases(locks) == locks

LocksIdle ==
    /\ l_pc = [p \in Callers |-> "idle"]
    /\ l_locks = [p \in Callers |-> <<>>]
    /\ l_i = [p \in Callers |-> 1]
    /\ l_tries = [p \in Callers |-> 0]
    /\ l_counter = [p \in Callers |-> [lock \in LockFiles |-> 0]]
    /\ l_owner = [lock \in LockFiles |-> Free]
    /\ l_attempt = [p \in Callers |-> {}]
    /\ l_failed = [p \in Callers |-> FALSE]

LocksInit ==
    /\ l_pc = [p \in Callers |-> "while"]
    /\ l_locks \in [Callers -> LockLists]
    /\ l_i = [p \in Callers |-> 1]
    /\ l_tries = [p \in Callers |-> 0]
    /\ l_counter = [p \in Callers |-> [lock \in LockFiles |-> 0]]
    /\ l_owner = [lock \in LockFiles |-> Free]
    /\ l_attempt = [p \in Callers |-> {}]
    /\ l_failed = [p \in Callers |-> FALSE]

\* line 494 true, line 500: a new pass over the whole set begins
StartAttempt(p) ==
    /\ l_pc[p] = "while"
    /\ l_tries[p] < MaxAttempts
    /\ l_pc' = [l_pc EXCEPT ![p] = "acquire"]
    /\ l_i' = [l_i EXCEPT ![p] = 1]
    /\ l_tries' = [l_tries EXCEPT ![p] = @ + 1]
    /\ l_attempt' = [l_attempt EXCEPT ![p] = {}]
    /\ l_failed' = [l_failed EXCEPT ![p] = FALSE]
    /\ UNCHANGED <<l_locks, l_counter, l_owner>>
    /\ UNCHANGED <<simplifyVars, finalVars, distVars, getLockVars, resolveVars,
                   unitVars,
                   mergeVars, walkVars>>

\* line 494 false, lines 514-518: the overall timeout has passed
RaiseBuildLockError(p) ==
    /\ l_pc[p] = "while"
    /\ l_pc' = [l_pc EXCEPT ![p] = "raised"]
    /\ UNCHANGED <<l_locks, l_i, l_tries, l_counter, l_owner, l_attempt, l_failed>>
    /\ UNCHANGED <<simplifyVars, finalVars, distVars, getLockVars, resolveVars,
                   unitVars,
                   mergeVars, walkVars>>

\* lines 501-502 (and 512-513, 520-521 after the last lock): one acquire returns
AcquireLock(p) ==
    /\ l_pc[p] = "acquire"
    /\ LET lock == l_locks[p][l_i[p]]
       IN  /\ CanAcquire(l_owner[lock], p)
           /\ l_counter' = [l_counter EXCEPT ![p][lock] = @ + 1]
           /\ l_owner' = [l_owner EXCEPT ![lock] = p]
           /\ l_attempt' = [l_attempt EXCEPT ![p] = @ \cup {lock}]
    /\ IF LastLock(l_i[p], l_locks[p])
       THEN /\ l_pc' = [l_pc EXCEPT ![p] = "body"]
            /\ UNCHANGED l_i
       ELSE /\ l_i' = [l_i EXCEPT ![p] = @ + 1]
            /\ UNCHANGED l_pc
    /\ UNCHANGED <<l_locks, l_tries, l_failed>>
    /\ UNCHANGED <<simplifyVars, finalVars, distVars, getLockVars, resolveVars,
                   unitVars,
                   mergeVars, walkVars>>

\* line 502 raising, line 503: one acquire times out
AcquireTimeout(p) ==
    /\ l_pc[p] = "acquire"
    /\ AcquireTimesOut(l_owner[l_locks[p][l_i[p]]], p)
    /\ l_pc' = [l_pc EXCEPT ![p] = "release"]
    /\ l_i' = [l_i EXCEPT ![p] = 1]
    /\ l_failed' = [l_failed EXCEPT ![p] = TRUE]
    /\ UNCHANGED <<l_locks, l_tries, l_counter, l_owner, l_attempt>>
    /\ UNCHANGED <<simplifyVars, finalVars, distVars, getLockVars, resolveVars,
                   unitVars,
                   mergeVars, walkVars>>

\* lines 510-511: one iteration of the handler's release loop, or its end
ReleaseAfterTimeout(p) ==
    /\ l_pc[p] = "release"
    /\ LET targets == HandlerReleases(l_locks[p])
       IN  IF l_i[p] > Len(targets)
           THEN /\ l_pc' = [l_pc EXCEPT ![p] = "while"]
                /\ UNCHANGED <<l_i, l_counter, l_owner>>
           ELSE LET lock == targets[l_i[p]]
                IN  /\ l_counter' = [l_counter EXCEPT ![p][lock] = Released(@)]
                    /\ l_owner' = [l_owner EXCEPT ![lock] =
                                      OwnerAfterRelease(@, p, l_counter[p][lock])]
                    /\ l_i' = [l_i EXCEPT ![p] = @ + 1]
                    /\ UNCHANGED l_pc
    /\ UNCHANGED <<l_locks, l_tries, l_attempt, l_failed>>
    /\ UNCHANGED <<simplifyVars, finalVars, distVars, getLockVars, resolveVars,
                   unitVars,
                   mergeVars, walkVars>>

\* lines 521-522: the guarded body ends
LeaveBody(p) ==
    /\ l_pc[p] = "body"
    /\ l_pc' = [l_pc EXCEPT ![p] = "finally"]
    /\ l_i' = [l_i EXCEPT ![p] = 1]
    /\ UNCHANGED <<l_locks, l_tries, l_counter, l_owner, l_attempt, l_failed>>
    /\ UNCHANGED <<simplifyVars, finalVars, distVars, getLockVars, resolveVars,
                   unitVars,
                   mergeVars, walkVars>>

\* lines 523-524: one iteration of the final release loop
ReleaseFinally(p) ==
    /\ l_pc[p] = "finally"
    /\ LET lock == l_locks[p][l_i[p]]
       IN  /\ l_counter' = [l_counter EXCEPT ![p][lock] = Released(@)]
           /\ l_owner' = [l_owner EXCEPT ![lock] =
                             OwnerAfterRelease(@, p, l_counter[p][lock])]
    /\ IF l_i[p] = Len(l_locks[p])
       THEN /\ l_pc' = [l_pc EXCEPT ![p] = "done"]
            /\ UNCHANGED l_i
       ELSE /\ l_i' = [l_i EXCEPT ![p] = @ + 1]
            /\ UNCHANGED l_pc
    /\ UNCHANGED <<l_locks, l_tries, l_attempt, l_failed>>
    /\ UNCHANGED <<simplifyVars, finalVars, distVars, getLockVars, resolveVars,
                   unitVars,
                   mergeVars, walkVars>>

\* line 502 raising anything but filelock.Timeout (KeyboardInterrupt, say)
\* while the caller waits for a file another caller holds: no except clause
\* matches and there is no finally around the while loop, so the exception
\* leaves try_acquire_locks at once
Interrupt(p) ==
    /\ l_pc[p] = "acquire"
    /\ ~CanAcquire(l_owner[l_locks[p][l_i[p]]], p)
    /\ l_pc' = [l_pc EXCEPT ![p] = "interrupted"]
    /\ UNCHANGED <<l_locks, l_i, l_tries, l_counter, l_owner, l_attempt, l_failed>>
    /\ UNCHANGED <<simplifyVars, finalVars, distVars, getLockVars, resolveVars,
                   unitVars,
                   mergeVars, walkVars>>

CallerStep(p) ==
    \/ StartAttempt(p)
    \/ RaiseBuildLockError(p)
    \/ AcquireLock(p)
    \/ AcquireTimeout(p)
    \/ ReleaseAfterTimeout(p)
    \/ LeaveBody(p)
    \/ ReleaseFinally(p)

LocksNext == \E p \in Callers : CallerStep(p)

LocksInterruptNext ==
    \/ LocksNext
    \/ \E p \in Callers : Interrupt(p)

(***************************************************************************)
(* utils.get_lock                                                          *)
(*                                                                         *)
(* One process calls get_lock on folders, several of which resolve to the  *)
(* same absolute path.  g_handles lists the FileLock objects built so far. *)
(***************************************************************************)
MaxCalls == 4

Folders == {"/pkgs", "/pkgs/", "/pkgs/../pkgs", "/bld"}

\* os.path.abspath(os.path.normpath(folder))
AbsNormPath(folder) == IF folder = "/bld" THEN "/bld" ELSE "/pkgs"

\* hashlib.sha256(b_location).hexdigest(): one name per location
LockFilename(location) == <<"sha256", location>>

\* _lock_folders, in the order get_lock tries them
LockFolders == <<"root_prefix/locks", "~/.conda_build_locks">>

\* the writable directories among _lock_folders that a call may find
Writable == {{}, {1}, {2}, {1, 2}}

\* for locks_dir in _lock_folders: the first one that can be written
FirstWritable(writable) ==
    IF 1 \in writable THEN 1 ELSE IF 2 \in writable THEN 2 ELSE 0

NewHandle(handles, folder, dir) ==
    [id |-> Len(handles) + 1,
     lock_file |-> <<LockFolders[dir], LockFilename(AbsNormPath(folder))>>,
     location |-> AbsNormPath(folder)]

GetLockIdle ==
    /\ g_pc = "idle"
    /\ g_handles = <<>>
    /\ g_returned = <<>>

GetLockInit ==
    /\ g_pc = "ready"
    /\ g_handles = <<>>
    /\ g_returned = <<>>

\* lines 737-768: one call; every successful call builds a FileLock
GetLock ==
    /\ g_pc = "ready"
    /\ Len(g_returned) < MaxCalls
    /\ \E folder \in Folders, writable \in Writable :
          LET dir == FirstWritable(writable)
          IN  IF dir = 0
              THEN /\ g_returned' = Append(g_returned, [folder |-> folder, handle |-> 0])
                   /\ g_pc' = "RuntimeError"
                   /\ UNCHANGED g_handles
              ELSE LET fl == NewHandle(g_handles, folder, dir)
                   IN  /\ g_handles' = Append(g_handles, fl)
                       /\ g_returned' = Append(g_returned,
                                               [folder |-> folder, handle |-> fl.id])
                       /\ UNCHANGED g_pc
    /\ UNCHANGED <<simplifyVars, finalVars, distVars, lockVars, resolveVars,
                   unitVars,
                   mergeVars, walkVars>>

GetLockNext == GetLock


(***************************************************************************)
(* get_env_dependencies as a function of its arguments                     *)
(*                                                                         *)
(* The requirement specs carry no " x.x" version, so lines 139-147 leave   *)
(* them as they are.                                                       *)
(***************************************************************************)
ResolveSpecUniverse ==
    {<<"sib">>, <<"sib", "1.0">>, <<"numpy">>, <<"zlib", "1.2">>}

\* m.config.variant restricted to the keys that name a requirement
ResolveVariants ==
    {<<>>, [key \in {"sib"} |-> "2.0"], [key \in {"numpy"} |-> "1.26"],
     [key \in {"sib", "numpy"} |-> IF key = "sib" THEN "2.0" ELSE "1.26"]}

ResolveIdle ==
    /\ r_pc = "idle"
    /\ r_in = [m |-> [version |-> "1.0", outputs |-> {}], specs |-> {},
               exclude |-> {}, variant |-> <<>>, extra_specs |-> {},
               permit |-> FALSE]
    /\ r_out = NoCall

ResolveInit ==
    /\ r_pc = "call"
    /\ \E outputs \in {{}, {"sib"}},
          specs \in SUBSET ResolveSpecUniverse,
          exclude \in SUBSET {"sib", "numpy"},
          variant \in ResolveVariants,
          extra_specs \in {{}, {<<"zlib">>}},
          permit \in BOOLEAN :
          r_in = [m |-> [version |-> "1.0", outputs |-> outputs], specs |-> specs,
                  exclude |-> exclude, variant |-> variant,
                  extra_specs |-> extra_specs, permit |-> permit]
    /\ r_out = NoCall

\* lines 127-196: one call of get_env_dependencies(m, "host", variant, ...)
CallGetEnvDependencies ==
    /\ r_pc = "call"
    /\ \E outcome \in SolverOutcomes :
          LET r == GetEnvDependencies(r_in.m, [host |-> r_in.specs], "host",
                       r_in.variant, r_in.exclude, r_in.permit,
                       r_in.extra_specs, outcome)
          IN  /\ outcome = "ok" \/ r.solver_input # {}
              /\ r_out' = r
              /\ r_pc' = IF r.raised THEN "raised" ELSE "returned"
    /\ UNCHANGED r_in
    /\ UNCHANGED <<simplifyVars, finalVars, distVars, lockVars, getLockVars,
                   unitVars,
                   mergeVars, walkVars>>

ResolveNext == CallGetEnvDependencies

(***************************************************************************)
(* Helper functions called once on arguments drawn from small sets          *)
(***************************************************************************)
UnitIdle ==
    /\ u_pc = "idle"
    /\ u_in = <<>>
    /\ u_out = <<>>

(***************************************************************************)
(* _filter_run_exports on a dict of lists                                  *)
(***************************************************************************)
MaxExports == 2

ExportSpecUniverse == {<<"rt", ">=1.0">>, <<"rt">>, <<"zz", "1.0">>}

IgnoreUniverse == {<<"*">>, <<"rt">>, <<"rt", ">=1.0">>, <<"zz", "2.0">>}

\* filtered_specs after the loop over specs_list of one agent (category):
\* a surviving spec is appended to the agent's list, which is created on the
\* first survivor
RECURSIVE FilterAgent(_, _, _, _)
FilterAgent(filtered_specs, agent, specs_list, ignore_list) ==
    IF specs_list = <<>> THEN filtered_specs
    ELSE LET spec == Head(specs_list)
             got == IF agent \in DOMAIN filtered_specs
                    THEN filtered_specs[agent] ELSE <<>>
             next == IF Ignored(spec, ignore_list) THEN filtered_specs
                     ELSE [a \in DOMAIN filtered_specs \cup {agent} |->
                              IF a = agent THEN Append(got, spec)
                              ELSE filtered_specs[a]]
         IN  FilterAgent(next, agent, Tail(specs_list), ignore_list)

RECURSIVE FilterAgents(_, _, _, _)
FilterAgents(filtered_specs, agents, specs, ignore_list) ==
    IF agents = {} THEN filtered_specs
    ELSE LET agent == CHOOSE a \in agents : TRUE
         IN  FilterAgents(FilterAgent(filtered_specs, agent, specs[agent], ignore_list),
                          agents \ {agent}, specs, ignore_list)

\* _filter_run_exports(specs, ignore_list) on a dict agent -> list of specs
FilterRunExportsDict(specs, ignore_list) ==
    FilterAgents(<<>>, DOMAIN specs, specs, ignore_list)

ExportLists == SeqsUpTo(ExportSpecUniverse, MaxExports)

FilterInit ==
    /\ u_pc = "call"
    /\ \E agents \in SUBSET {"strong", "weak"}, ignore_list \in SUBSET IgnoreUniverse :
          \E specs \in [agents -> ExportLists] :
              u_in = [specs |-> specs, ignore_list |-> ignore_list]
    /\ u_out = <<>>

\* lines 239-254
CallFilterRunExports ==
    /\ u_pc = "call"
    /\ u_out' = FilterRunExportsDict(u_in.specs, u_in.ignore_list)
    /\ u_pc' = "returned"
    /\ UNCHANGED u_in
    /\ UNCHANGED <<simplifyVars, finalVars, distVars, lockVars, getLockVars,
                   resolveVars,
                   mergeVars, walkVars>>

FilterNext == CallFilterRunExports

(***************************************************************************)
(* _read_specs_from_package                                                *)
(*                                                                         *)
(* A package location is an extracted directory, an archive, or neither.   *)
(* Its info/ folder may hold the legacy text file run_exports and the      *)
(* structured documents run_exports.yaml and run_exports.json.  A document *)
(* is a function from category names to lists of specs.                    *)
(***************************************************************************)
MaxLegacyLines == 2

LegacyLineUniverse == {<<"rt">>, <<"pkg", "1.0">>, <<"pkg-dev">>}

EmptyDoc == [c \in {} |-> <<>>]

YamlDoc == [c \in {"strong"} |-> <<<<"ry">>>>]

JsonDoc == [c \in {"strong"} |-> <<<<"rj">>>>]

WeakDoc(lines) == [c \in {"weak"} |-> lines]

NoFile == [present |-> FALSE, content |-> <<>>]

File(content) == [present |-> TRUE, content |-> content]

\* spec.startswith(pkg_dist.rsplit("-", 2)[0]) for pkg_dist "pkg-1.0-0"
StartsWithDistName(spec) == spec[1] \in {"pkg", "pkg-dev"}

\* the order sorted() gives the lines of LegacyLineUniverse
LineRank(spec) ==
    IF spec = <<"pkg", "1.0">> THEN 1 ELSE IF spec = <<"pkg-dev">> THEN 2 ELSE 3

RECURSIVE SortedLines(_)
SortedLines(lines) ==
    IF lines = {} THEN <<>>
    ELSE LET first == CHOOSE x \in lines : \A y \in lines : LineRank(x) <= LineRank(y)
         IN  <<first>> \o SortedLines(lines \ {first})

\* lines 294-304: pkg_loc is a directory
SpecsFromDirectory(pkg) ==
    IF pkg.legacy.present THEN WeakDoc(pkg.legacy.content)
    ELSE IF pkg.yaml.present THEN pkg.yaml.content
    ELSE IF pkg.json.present THEN pkg.json.content
    ELSE EmptyDoc

\* utils.package_has_file: the member's text, false when it is missing or empty
HasText(file) == file.present /\ file.content # <<>>

\* lines 305-328: pkg_loc is a file
SpecsFromArchive(pkg) ==
    IF pkg.json.present THEN pkg.json.content
    ELSE IF pkg.yaml.present THEN pkg.yaml.content
    ELSE IF HasText(pkg.legacy)
    THEN WeakDoc(SortedLines({spec \in SeqToSet(pkg.legacy.content) :
                                 ~StartsWithDistName(spec)}))
    ELSE EmptyDoc

ReadSpecsFromPackage(pkg) ==
    LET specs == IF pkg.kind = "directory" THEN SpecsFromDirectory(pkg) ELSE EmptyDoc
    IN  IF DOMAIN specs = {} /\ pkg.kind = "archive"
        THEN SpecsFromArchive(pkg)
        ELSE specs

ReadSpecsInit ==
    /\ u_pc = "call"
    /\ \E kind \in {"directory", "archive", "missing"},
          legacy \in {NoFile} \cup
                     {File(lines) : lines \in SeqsUpTo(LegacyLineUniverse, MaxLegacyLines)},
          yaml \in {NoFile, File(EmptyDoc), File(YamlDoc)},
          json \in {NoFile, File(EmptyDoc), File(JsonDoc)} :
          u_in = [kind |-> kind, legacy |-> legacy, yaml |-> yaml, json |-> json]
    /\ u_out = <<>>

\* lines 291-329
CallReadSpecsFromPackage ==
    /\ u_pc = "call"
    /\ u_out' = ReadSpecsFromPackage(u_in)
    /\ u_pc' = "returned"
    /\ UNCHANGED u_in
    /\ UNCHANGED <<simplifyVars, finalVars, distVars, lockVars, getLockVars,
                   resolveVars,
                   mergeVars, walkVars>>

ReadSpecsNext == CallReadSpecsFromPackage

(***************************************************************************)
(* utils.apply_pin_expressions and utils._increment                        *)
(*                                                                         *)
(* A version text is the sequence of its tokens: numbers, single letters,  *)
(* words of several letters, the dot and the epoch mark "!".  VersionOrder *)
(* turns a text into a list of components, the first being the epoch, each *)
(* component a list of atoms; a string atom sorts before every number.     *)
(***************************************************************************)
MaxPin == 4

Num(v) == [k |-> "num", v |-> v]

\* a single letter, v its position in the alphabet
Letter(v) == [k |-> "letter", v |-> v]

\* a string of several letters, v the position of its first letter
Word(v) == [k |-> "word", v |-> v]

Dot == [k |-> "dot", v |-> 0]

Bang == [k |-> "bang", v |-> 0]

\* str.isalpha() of str(atom)
IsAlpha(atom) == atom.k \in {"letter", "word"}

\* the texts between the dots
RECURSIVE SplitOnDot(_, _)
SplitOnDot(text, current) ==
    IF text = <<>> THEN <<current>>
    ELSE IF Head(text) = Dot
         THEN <<current>> \o SplitOnDot(Tail(text), <<>>)
         ELSE SplitOnDot(Tail(text), Append(current, Head(text)))

\* digits written next to each other read as one number
RECURSIVE MergeDigits(_)
MergeDigits(component) ==
    IF Len(component) < 2 THEN component
    ELSE IF component[1].k = "num" /\ component[2].k = "num"
         THEN MergeDigits(<<Num(component[1].v * 10 + component[2].v)>>
                             \o SubSeq(component, 3, Len(component)))
         ELSE <<component[1]>> \o MergeDigits(Tail(component))

\* a component that starts with a string gets the fill value 0 in front
Component(text) ==
    LET merged == MergeDigits(text)
    IN  IF merged # <<>> /\ IsAlpha(merged[1]) THEN <<Num(0)>> \o merged ELSE merged

\* conda's VersionOrder(text).version: [[epoch], component, component, ...]
VersionOrder_(text) ==
    LET has_epoch == Len(text) >= 2 /\ text[2] = Bang
        epoch == IF has_epoch THEN text[1] ELSE Num(0)
        rest == IF has_epoch THEN SubSeq(text, 3, Len(text)) ELSE text
        parts == SplitOnDot(rest, <<>>)
    IN  <<<<epoch>>>> \o [i \in DOMAIN parts |-> Component(parts[i])]

\* order of two atoms: strings before numbers, else by value
AtomLess(a, b) ==
    IF IsAlpha(a) = IsAlpha(b) THEN a.v < b.v ELSE IsAlpha(a)

PadTo(s, n, fill) == [i \in 1..n |-> IF i <= Len(s) THEN s[i] ELSE fill]

Max2(a, b) == IF a >= b THEN a ELSE b

Min2(a, b) == IF a <= b THEN a ELSE b

\* lexicographic order of two atom lists of the same length
RECURSIVE AtomsLess(_, _)
AtomsLess(s, t) ==
    IF s = <<>> THEN FALSE
    ELSE IF AtomLess(Head(s), Head(t)) THEN TRUE
    ELSE IF AtomLess(Head(t), Head(s)) THEN FALSE
    ELSE AtomsLess(Tail(s), Tail(t))

\* the shorter component is filled up with 0
ComponentLess(c, d) ==
    LET n == Max2(Len(c), Len(d))
    IN  AtomsLess(PadTo(c, n, Num(0)), PadTo(d, n, Num(0)))

\* lexicographic order of two component lists of the same length
RECURSIVE ComponentsLess(_, _)
ComponentsLess(s, t) ==
    IF s = <<>> THEN FALSE
    ELSE IF ComponentLess(Head(s), Head(t)) THEN TRUE
    ELSE IF ComponentLess(Head(t), Head(s)) THEN FALSE
    ELSE ComponentsLess(Tail(s), Tail(t))

\* VersionOrder(a) < VersionOrder(b) on the parsed lists
VersionOrderLess(a, b) ==
    LET n == Max2(Len(a), Len(b))
    IN  ComponentsLess(PadTo(a, n, <<Num(0)>>), PadTo(b, n, <<Num(0)>>))

\* lines 1511-1518: flat_list
RECURSIVE FlatList(_)
FlatList(parsed_version) ==
    IF parsed_version = <<>> THEN <<>>
    ELSE Head(parsed_version) \o FlatList(Tail(parsed_version))

\* nesting_position: every item of VersionOrder.version is a list, so it ends
\* as the 0-based index of the last component
NestingPosition(parsed_version) == Len(parsed_version) - 1

\* _increment can only increment a number or a single character
CanIncrement(atom) == atom.k \in {"num", "letter"}

Increment_NoSuffix(atom, alpha_ver) ==
    IF atom.k = "num" THEN <<Num(atom.v + 1)>> ELSE <<Letter(atom.v + 1)>>

\* _increment(version, alpha_ver), as the tokens of the string it returns
Increment(atom, alpha_ver) ==
    IF atom.k = "num"
    THEN IF alpha_ver
         THEN <<Num(atom.v + 1), Letter(1)>>
         ELSE <<Num(atom.v + 1), Dot, Num(0), Letter(1), Num(0)>>
    ELSE <<Letter(atom.v + 1)>>

\* lines 1527-1537: versions[p_idx] for one pin; v_idx counts from 0
RECURSIVE PinnedFrom(_, _, _, _, _)
PinnedFrom(flat_list, pin, nesting_position, is_upper, v_idx) ==
    IF v_idx >= Min2(pin, Len(flat_list)) THEN <<>>
    ELSE LET v == flat_list[v_idx + 1]
             alpha_ver == IsAlpha(flat_list[Min2(pin, Len(flat_list) - 1) + 1])
             shown == IF is_upper /\ v_idx = pin - 1
                      THEN Increment(v, alpha_ver) ELSE <<v>>
             dot == IF v_idx # nesting_position THEN <<Dot>> ELSE <<>>
         IN  shown \o dot
                \o PinnedFrom(flat_list, pin, nesting_position, is_upper, v_idx + 1)

StripLastDot(text) ==
    IF text # <<>> /\ text[Len(text)] = Dot THEN SubSeq(text, 1, Len(text) - 1) ELSE text

Pinned(flat_list, pin, nesting_position, is_upper) ==
    StripLastDot(PinnedFrom(flat_list, pin, nesting_position, is_upper, 0))

\* lines 1538-1550: the lower bound is the truncated version unless the
\* version itself sorts before it
LowerBound(version, truncated) ==
    IF VersionOrderLess(VersionOrder_(version), VersionOrder_(truncated))
    THEN version ELSE truncated

\* lines 1519-1520: max_pin cannot keep more places than the version has
UpperPin(max_pin, flat_list) ==
    IF max_pin > Len(flat_list) THEN Len(flat_list) ELSE max_pin

\* apply_pin_expressions(version, min_pin, max_pin); a pin is the number of
\* its "x" places, 0 for an empty pin; the result ">=lower,<upper" is kept
\* as its two bounds, <<>> for a bound that is not there
ApplyPinExpressions(version, min_pin, max_pin) ==
    LET parsed_version == Tail(VersionOrder_(version))
        flat_list == FlatList(parsed_version)
        nesting_position == NestingPosition(parsed_version)
        upper_pin == UpperPin(max_pin, flat_list)
        raises == /\ upper_pin > 0
                  /\ ~CanIncrement(flat_list[upper_pin])
        lower == IF min_pin > 0
                 THEN LowerBound(version,
                                 Pinned(flat_list, min_pin, nesting_position, FALSE))
                 ELSE <<>>
        upper == IF upper_pin > 0 /\ ~raises
                 THEN Pinned(flat_list, upper_pin, nesting_position, TRUE)
                 ELSE <<>>
    IN  [raised |-> raises,
         lower |-> IF raises THEN <<>> ELSE lower,
         upper |-> upper]

\* "1", "1.2", "1.2.3", "0.9", "1.9.9", "1.0.2a", "1.0.2b", "1.2rc1", "1!2.0"
VersionUniverse ==
    {<<Num(1)>>,
     <<Num(1), Dot, Num(2)>>,
     <<Num(1), Dot, Num(2), Dot, Num(3)>>,
     <<Num(0), Dot, Num(9)>>,
     <<Num(1), Dot, Num(9), Dot, Num(9)>>,
     <<Num(1), Dot, Num(0), Dot, Num(2), Letter(1)>>,
     <<Num(1), Dot, Num(0), Dot, Num(2), Letter(2)>>,
     <<Num(1), Dot, Num(2), Word(18), Num(1)>>,
     <<Num(1), Bang, Num(2), Dot, Num(0)>>}

PinInit ==
    /\ u_pc = "call"
    /\ \E version \in VersionUniverse, min_pin \in 0..MaxPin, max_pin \in 0..MaxPin :
          u_in = [version |-> version, min_pin |-> min_pin, max_pin |-> max_pin]
    /\ u_out = <<>>

\* lines 1508-1553
CallApplyPinExpressions ==
    /\ u_pc = "call"
    /\ LET r == ApplyPinExpressions(u_in.version, u_in.min_pin, u_in.max_pin)
       IN  /\ u_out' = r
           /\ u_pc' = IF r.raised THEN "raised" ELSE "returned"
    /\ UNCHANGED u_in
    /\ UNCHANGED <<simplifyVars, finalVars, distVars, lockVars, getLockVars,
                   resolveVars,
                   mergeVars, walkVars>>

PinNext == CallApplyPinExpressions

(***************************************************************************)
(* render.get_pin_from_build                                               *)
(*                                                                         *)
(* A spec is its name, its version field and its build field; the version  *)
(* field is absent ("none"), an explicit version ("exact"), the numpy      *)
(* sentinel "x.x" ("xx") or a range written by the pinning ("range").      *)
(***************************************************************************)
PinNames == {"foo", "numpy", "python"}

NoVersion == [kind |-> "none", lower |-> <<>>, upper |-> <<>>]

\* "1.5"
ExactVersion == [kind |-> "exact", lower |-> <<Num(1), Dot, Num(5)>>, upper |-> <<>>]

XX == [kind |-> "xx", lower |-> <<>>, upper |-> <<>>]

Range(pin) == [kind |-> "range", lower |-> pin.lower, upper |-> pin.upper]

\* "foo", "foo 1.5", "foo 1.5 0", "python", "python 1.5", "numpy",
\* "numpy 1.5", "numpy x.x"
DepUniverse ==
    [name : {"foo", "python"}, version : {NoVersion, ExactVersion}, build : {"", "0"}]
        \cup [name : {"numpy"}, version : {NoVersion, ExactVersion, XX}, build : {""}]

\* the versions the pinning environment resolved: "" for a record without a
\* version, else "1.2.3"
ResolvedVersions == {<<>>, <<Num(1), Dot, Num(2), Dot, Num(3)>>}

PartialFunctions(D, R) == UNION {[S -> R] : S \in SUBSET D}

\* "x.x" for both pins, or max_pin alone
PinCfgs == {[min_pin |-> 2, max_pin |-> 2], [min_pin |-> 0, max_pin |-> 1]}

\* m.config.variant.get(name): the variant gives python "1.2" only
VariantVersion(variant, name) ==
    IF name \in DOMAIN variant THEN variant[name] ELSE <<>>

\* line 215: build_dep_versions.get(dep_name) or m.config.variant.get(dep_name)
PinVersion(m, dep_name, build_dep_versions) ==
    IF dep_name \in DOMAIN build_dep_versions /\ build_dep_versions[dep_name] # <<>>
    THEN build_dep_versions[dep_name]
    ELSE VariantVersion(m.variant, dep_name)

\* lines 216-221: the condition of the pin_run_as_build branch
PinRunAsBuildApplies(m, dep, build_dep_versions) ==
    /\ PinVersion(m, dep.name, build_dep_versions) # <<>>
    /\ dep.name \in DOMAIN m.pin_run_as_build
    /\ ~(dep.name = "python" /\ m.python_version_independent)
    /\ dep.name \in DOMAIN build_dep_versions

\* line 228: dep.startswith("numpy") and "x.x" in dep
NumpyXX(dep) == dep.name = "numpy" /\ dep.version.kind = "xx"

\* lines 229-232
NumpyXXRaises(m, dep, build_dep_versions) ==
    /\ ~PinRunAsBuildApplies(m, dep, build_dep_versions)
    /\ NumpyXX(dep)
    /\ ~(dep.name \in DOMAIN build_dep_versions /\ build_dep_versions[dep.name] # <<>>)

\* lines 207-236; raised for the ValueError
GetPinFromBuild(m, dep, build_dep_versions) ==
    LET version == PinVersion(m, dep.name, build_dep_versions)
        pin == IF PinRunAsBuildApplies(m, dep, build_dep_versions)
               THEN LET pin_cfg == m.pin_run_as_build[dep.name]
                    IN  ApplyPinExpressions(version, pin_cfg.min_pin, pin_cfg.max_pin)
               ELSE IF NumpyXX(dep)
                    THEN ApplyPinExpressions(version, 2, 2)
                    ELSE [raised |-> FALSE, lower |-> <<>>, upper |-> <<>>]
    IN  IF NumpyXXRaises(m, dep, build_dep_versions)
        THEN [raised |-> TRUE, dep |-> dep]
        ELSE [raised |-> FALSE,
              dep |-> IF pin.lower # <<>> \/ pin.upper # <<>>
                      THEN [name |-> dep.name, version |-> Range(pin),
                            build |-> dep.build]
                      ELSE dep]

GetPinInit ==
    /\ u_pc = "call"
    /\ \E dep \in DepUniverse,
          build_dep_versions \in PartialFunctions(PinNames, ResolvedVersions),
          pin_run_as_build \in PartialFunctions({"foo", "python"}, PinCfgs),
          python_version_independent \in BOOLEAN :
          u_in = [m |-> [pin_run_as_build |-> pin_run_as_build,
                         variant |-> [n \in {"python"} |-> <<Num(1), Dot, Num(2)>>],
                         python_version_independent |-> python_version_independent],
                  dep |-> dep,
                  build_dep_versions |-> build_dep_versions]
    /\ u_out = <<>>

\* lines 207-236
CallGetPinFromBuild ==
    /\ u_pc = "call"
    /\ LET r == GetPinFromBuild(u_in.m, u_in.dep, u_in.build_dep_versions)
       IN  /\ u_pc' = IF r.raised THEN "raised" ELSE "returned"
           /\ u_out' = r.dep
    /\ UNCHANGED u_in
    /\ UNCHANGED <<simplifyVars, finalVars, distVars, lockVars, getLockVars,
                   resolveVars,
                   mergeVars, walkVars>>

GetPinNext == CallGetPinFromBuild

(***************************************************************************)
(* utils.compute_content_hash                                              *)
(*                                                                         *)
(* A path, a file content and a symlink target are sequences of            *)
(* characters; a directory is given as the sequence in which rglob         *)
(* enumerates its entries.  The hash is kept as the sequence of characters *)
(* fed to the hasher.                                                      *)
(***************************************************************************)
MaxEntries == 2

CR == "\r"

LF == "\n"

\* ord() of the characters of the universe
Ord(c) ==
    CASE c = LF -> 10
      [] c = CR -> 13
      [] c = "-" -> 45
      [] c = "/" -> 47
      [] c = "D" -> 68
      [] c = "F" -> 70
      [] c = "L" -> 76
      [] c = "a" -> 97
      [] c = "b" -> 98
      [] c = "c" -> 99
      [] c = "x" -> 120
      [] c = "y" -> 121

\* s < t for two strings
RECURSIVE StrLess(_, _)
StrLess(s, t) ==
    IF t = <<>> THEN FALSE
    ELSE IF s = <<>> THEN TRUE
    ELSE IF Ord(Head(s)) < Ord(Head(t)) THEN TRUE
    ELSE IF Ord(Head(s)) > Ord(Head(t)) THEN FALSE
    ELSE StrLess(Tail(s), Tail(t))

\* insertion of one entry into a list sorted by path
RECURSIVE InsertByPath(_, _)
InsertByPath(entry, sorted) ==
    IF sorted = <<>> THEN <<entry>>
    ELSE IF StrLess(entry.path, Head(sorted).path)
         THEN <<entry>> \o sorted
         ELSE <<Head(sorted)>> \o InsertByPath(entry, Tail(sorted))

Sorted_AsEnumerated(enumerated) == enumerated

\* line 2053: sorted(Path(directory).rglob("*"), key=str)
RECURSIVE Sorted(_)
Sorted(enumerated) ==
    IF enumerated = <<>> THEN <<>>
    ELSE InsertByPath(enumerated[Len(enumerated)],
                      Sorted(SubSeq(enumerated, 1, Len(enumerated) - 1)))

StartsWith(s, prefix) ==
    Len(prefix) <= Len(s) /\ SubSeq(s, 1, Len(prefix)) = prefix

EndsWithSlash(s) == s # <<>> /\ s[Len(s)] = "/"

\* lines 2056-2066: the entry is skipped
Skipped(relpathstr, skip) ==
    \E skip_item \in skip :
        \/ EndsWithSlash(skip_item) /\ StartsWith(relpathstr, skip_item)
        \/ relpathstr \o <<"/">> = skip_item
        \/ relpathstr = skip_item

\* lines 2081-2087: a text file is read with universal newlines, then
\* "\r\n" is replaced by "\n"
RECURSIVE NormalizedText(_)
NormalizedText(data) ==
    IF data = <<>> THEN <<>>
    ELSE IF Head(data) = CR
         THEN IF Len(data) >= 2 /\ data[2] = LF
              THEN <<LF>> \o NormalizedText(SubSeq(data, 3, Len(data)))
              ELSE <<LF>> \o NormalizedText(Tail(data))
         ELSE <<Head(data)>> \o NormalizedText(Tail(data))

\* lines 2075-2097: what a regular file feeds after its "F"
FileBytes(entry) == IF entry.binary THEN entry.data ELSE NormalizedText(entry.data)

\* lines 2068-2105: what one entry feeds to the hasher
EntryBytes(entry) ==
    entry.path
        \o (CASE entry.type = "L" -> <<"L">> \o entry.data
              [] entry.type = "D" -> <<"D">>
              [] entry.type = "F" -> <<"F">> \o FileBytes(entry))
        \o <<"-">>

RECURSIVE FeedAll(_, _)
FeedAll(entries, skip) ==
    IF entries = <<>> THEN <<>>
    ELSE (IF Skipped(Head(entries).path, skip) THEN <<>> ELSE EntryBytes(Head(entries)))
            \o FeedAll(Tail(entries), skip)

\* compute_content_hash(directory, skip=skip): everything fed to the hasher
ComputeContentHash(enumerated, skip) == FeedAll(Sorted(enumerated), skip)

FileEntry(path, data) == [path |-> path, type |-> "F", binary |-> FALSE, data |-> data]

BinaryEntry(path, data) == [path |-> path, type |-> "F", binary |-> TRUE, data |-> data]

DirEntry(path) == [path |-> path, type |-> "D", binary |-> FALSE, data |-> <<>>]

LinkEntry(path, target) == [path |-> path, type |-> "L", binary |-> FALSE, data |-> target]

EntryUniverse ==
    {FileEntry(<<"a">>, <<"x">>),
     FileEntry(<<"a">>, <<"F", "x">>),
     FileEntry(<<"a">>, <<"x", "-", "b", "F", "y">>),
     DirEntry(<<"a">>),
     LinkEntry(<<"a">>, <<"b">>),
     FileEntry(<<"a", "F">>, <<"x">>),
     FileEntry(<<"b">>, <<"y">>),
     LinkEntry(<<"b">>, <<"a">>),
     FileEntry(<<"c">>, <<"x", CR, LF>>),
     BinaryEntry(<<"c">>, <<"x", CR, LF>>)}

\* the enumerations rglob can give: entries with distinct paths, in any order
Enumerations ==
    {e \in UNION {[1..n -> EntryUniverse] : n \in 0..MaxEntries} :
        \A i, j \in DOMAIN e : i # j => e[i].path # e[j].path}

SkipUniverse == {{}, {<<"b">>}}

\* two directories are hashed with the same skip list
HashInit ==
    /\ u_pc = "call"
    /\ \E a \in Enumerations, b \in Enumerations, skip \in SkipUniverse :
          u_in = [a |-> a, b |-> b, skip |-> skip]
    /\ u_out = <<>>

\* lines 2017-2112, once for each of the two directories
CallComputeContentHash ==
    /\ u_pc = "call"
    /\ u_out' = [a |-> ComputeContentHash(u_in.a, u_in.skip),
                 b |-> ComputeContentHash(u_in.b, u_in.skip)]
    /\ u_pc' = "returned"
    /\ UNCHANGED u_in
    /\ UNCHANGED <<simplifyVars, finalVars, distVars, lockVars, getLockVars,
                   resolveVars,
                   mergeVars, walkVars>>

HashNext == CallComputeContentHash

(***************************************************************************)
(* utils.merge_tree, utils.copytree and utils.copy_into                    *)
(*                                                                         *)
(* Two processes copy into the same destination directory "dst".  The      *)
(* destination has the paths dst, dst/f, dst/sub and dst/sub/g; a source   *)
(* directory holds some of f, sub and sub/g.  Every write to the           *)
(* destination is recorded with whether the writer held its lock then and  *)
(* whether it replaced a file that was there.  A lock is acquired as       *)
(* try_acquire_locks does for one lock, without the timeout.               *)
(***************************************************************************)
DstPaths == {"dst", "dst/f", "dst/sub", "dst/sub/g"}

SrcTrees == {{"f"}, {"sub", "sub/g"}, {"f", "sub", "sub/g"}}

SrcFolders == {"srcA", "srcB"}

\* os.path.join(dst, item)
DstOf(item) ==
    CASE item = "f" -> "dst/f"
      [] item = "sub" -> "dst/sub"
      [] item = "sub/g" -> "dst/sub/g"

\* os.listdir(src): the entries directly under src
ListDir(items) == items \cap {"f", "sub"}

Exists(fs, path) == fs[path] # "absent"

IsFile(fs, path) == path \in {"dst/f", "dst/sub/g"} /\ Exists(fs, path)

MergeCalls ==
    [op : {"merge_tree"}, src : SrcFolders, items : SrcTrees, clobber : BOOLEAN]
        \cup [op : {"copy_file"}, src : SrcFolders, items : {{"f"}}, clobber : {FALSE}]
        \cup [op : {"copy_symlink"}, src : {"srcA"}, items : {{"f"}}, clobber : {FALSE}]

\* the destination trees to start from: a path exists only under an
\* existing directory
DstTrees ==
    {fs \in [DstPaths -> {"absent", "old"}] :
        /\ Exists(fs, "dst/f") => Exists(fs, "dst")
        /\ Exists(fs, "dst/sub") => Exists(fs, "dst")
        /\ Exists(fs, "dst/sub/g") => Exists(fs, "dst/sub")}

\* the process holds the lock of its src
HoldsSrcLock(p) == m_lock[m_call[p].src] = p

Write(p, path, replaced) ==
    [p |-> p, op |-> m_call[p].op, clobber |-> m_call[p].clobber, path |-> path,
     locked |-> HoldsSrcLock(p), replaced |-> replaced]

\* os.makedirs(path) when path does not exist: the tree and the write made
MakeDirs(p, fs, path) ==
    IF Exists(fs, path)
    THEN [fs |-> fs, writes |-> {}]
    ELSE [fs |-> [fs EXCEPT ![path] = p], writes |-> {Write(p, path, FALSE)}]

\* _copy_with_shell_fallback(s, d): d is created or replaced
CopyFile(p, fs, path) ==
    [fs |-> [fs EXCEPT ![path] = p], writes |-> {Write(p, path, IsFile(fs, path))}]

MergeIdle ==
    /\ m_pc = [p \in Callers |-> "idle"]
    /\ m_call = [p \in Callers |-> <<>>]
    /\ m_fs = [path \in DstPaths |-> "absent"]
    /\ m_lock = [folder \in SrcFolders |-> Free]
    /\ m_existing = [p \in Callers |-> {}]
    /\ m_todo = [p \in Callers |-> {}]
    /\ m_writes = {}

MergeInit ==
    /\ m_call \in [Callers -> MergeCalls]
    /\ m_pc = [p \in Callers |-> m_call[p].op]
    /\ m_fs \in DstTrees
    /\ m_lock = [folder \in SrcFolders |-> Free]
    /\ m_existing = [p \in Callers |-> {}]
    /\ m_todo = [p \in Callers |-> {}]
    /\ m_writes = {}

MergeFrame ==
    UNCHANGED <<simplifyVars, finalVars, distVars, lockVars, getLockVars,
                resolveVars, unitVars, walkVars>>

\* merge_tree line 711: copytree(src, dst, symlinks=symlinks, dry_run=True);
\* copytree lines 649-651 create dst even in a dry run
MergeTreeDryRun(p) ==
    /\ m_pc[p] = "merge_tree"
    /\ LET made == MakeDirs(p, m_fs, "dst")
       IN  /\ m_fs' = made.fs
           /\ m_writes' = m_writes \cup made.writes
    /\ m_pc' = [m_pc EXCEPT ![p] = "check"]
    /\ UNCHANGED <<m_call, m_lock, m_existing, m_todo>>
    /\ MergeFrame

\* merge_tree lines 712-715: new_files are the entries directly under dst
\* that copytree returned; existing are those that are files
MergeTreeCheck(p) ==
    /\ m_pc[p] = "check"
    /\ LET new_files == {DstOf(item) : item \in ListDir(m_call[p].items)}
           existing == {f \in new_files : IsFile(m_fs, f)}
       IN  /\ m_existing' = [m_existing EXCEPT ![p] = existing]
           /\ m_pc' = [m_pc EXCEPT ![p] =
                          IF existing # {} /\ ~m_call[p].clobber
                          THEN "raised" ELSE "acquire"]
    /\ UNCHANGED <<m_call, m_fs, m_lock, m_todo, m_writes>>
    /\ MergeFrame

\* merge_tree lines 717-722 and copy_into lines 614-617: the lock is
\* get_lock(src) for merge_tree and get_lock(src_folder) for a file
AcquireSrcLock(p) ==
    /\ m_pc[p] \in {"acquire", "copy_file"}
    /\ m_lock[m_call[p].src] = Free
    /\ m_lock' = [m_lock EXCEPT ![m_call[p].src] = p]
    /\ m_pc' = [m_pc EXCEPT ![p] = IF m_pc[p] = "acquire" THEN "copytree" ELSE "copy"]
    /\ UNCHANGED <<m_call, m_fs, m_existing, m_todo, m_writes>>
    /\ MergeFrame

\* copytree lines 649-662: create dst when missing, list src
CopyTreeStart(p) ==
    /\ m_pc[p] = "copytree"
    /\ LET made == MakeDirs(p, m_fs, "dst")
       IN  /\ m_fs' = made.fs
           /\ m_writes' = m_writes \cup made.writes
    /\ m_todo' = [m_todo EXCEPT ![p] = m_call[p].items]
    /\ m_pc' = [m_pc EXCEPT ![p] = "items"]
    /\ UNCHANGED <<m_call, m_lock, m_existing>>
    /\ MergeFrame

\* copytree lines 664-680: one entry of src, in listing order; a directory
\* is entered by the recursive call, which creates it under dst when missing,
\* and its entries follow
CopyItem(p) ==
    /\ m_pc[p] = "items"
    /\ \E item \in m_todo[p] :
          /\ item = "sub/g" => "sub" \notin m_todo[p]
          /\ LET done == IF item = "sub"
                         THEN MakeDirs(p, m_fs, DstOf(item))
                         ELSE CopyFile(p, m_fs, DstOf(item))
             IN  /\ m_fs' = done.fs
                 /\ m_writes' = m_writes \cup done.writes
          /\ m_todo' = [m_todo EXCEPT ![p] = @ \ {item}]
    /\ UNCHANGED <<m_pc, m_call, m_lock, m_existing>>
    /\ MergeFrame

\* copy_into lines 618-630: under the lock, create the folder of dst when
\* missing and copy the file
CopyIntoFile(p) ==
    /\ m_pc[p] = "copy"
    /\ LET made == MakeDirs(p, m_fs, "dst")
           copied == CopyFile(p, made.fs, "dst/f")
       IN  /\ m_fs' = copied.fs
           /\ m_writes' = m_writes \cup made.writes \cup copied.writes
    /\ m_pc' = [m_pc EXCEPT ![p] = "copied"]
    /\ UNCHANGED <<m_call, m_lock, m_existing, m_todo>>
    /\ MergeFrame

\* the end of "with try_acquire_locks(locks, timeout)" in merge_tree and
\* copy_into
ReleaseSrcLock(p) ==
    /\ \/ m_pc[p] = "items" /\ m_todo[p] = {}
       \/ m_pc[p] = "copied"
    /\ m_lock' = [m_lock EXCEPT ![m_call[p].src] = Free]
    /\ m_pc' = [m_pc EXCEPT ![p] = "done"]
    /\ UNCHANGED <<m_call, m_fs, m_existing, m_todo, m_writes>>
    /\ MergeFrame

\* copy_into lines 566-583, symlinks and islink(src): the folder of dst is
\* created, dst is removed when it exists and the link is made; no lock is
\* taken on this branch
CopyIntoSymlink(p) ==
    /\ m_pc[p] = "copy_symlink"
    /\ LET made == MakeDirs(p, m_fs, "dst")
           linked == CopyFile(p, made.fs, "dst/f")
       IN  /\ m_fs' = linked.fs
           /\ m_writes' = m_writes \cup made.writes \cup linked.writes
    /\ m_pc' = [m_pc EXCEPT ![p] = "done"]
    /\ UNCHANGED <<m_call, m_lock, m_existing, m_todo>>
    /\ MergeFrame

MergeNext ==
    \E p \in Callers :
        \/ MergeTreeDryRun(p)
        \/ MergeTreeCheck(p)
        \/ AcquireSrcLock(p)
        \/ CopyTreeStart(p)
        \/ CopyItem(p)
        \/ CopyIntoFile(p)
        \/ ReleaseSrcLock(p)
        \/ CopyIntoSymlink(p)
(***************************************************************************)
(* render.finalize_metadata, lines 680-719: the walk over sibling          *)
(* sub-outputs that collects extra_specs                                   *)
(*                                                                         *)
(* The job is the sub-output "m"; its siblings are "a" and "b"; "ext" is a *)
(* package that is no output of the recipe; no sibling requires itself.    *)
(* The two things that grow without limit when the loop does not end,     *)
(* extra_specs and the number of visits, are kept up to MaxExtraSpecs and  *)
(* MaxVisits.                                                              *)
(***************************************************************************)
MaxExtraSpecs == 2

MaxVisits == 3

JobName == "m"

Siblings == {"a", "b"}

\* name for (name, _) in m.other_outputs
OtherOutputNames == {JobName} \cup Siblings

WalkReqNames == Siblings \cup {"ext"}

\* what the walk reads: the names of the job's host (or build) requirements
\* and, per sibling, whether its variant matches the job's and its run
\* requirements
WalkInputs ==
    {input \in [host_requirement_names : SUBSET WalkReqNames,
                other_outputs : [Siblings -> [matches : BOOLEAN,
                                              run : SUBSET WalkReqNames]]] :
        \A name \in Siblings : name \notin input.other_outputs[name].run}

WalkIdle ==
    /\ w_pc = "idle"
    /\ w_in = <<>>
    /\ w_reqs = <<>>
    /\ w_to_process = {}
    /\ w_seen = {}
    /\ w_extra_specs = <<>>
    /\ w_visits = [name \in Siblings |-> 0]

WalkInit ==
    /\ w_pc = "start"
    /\ w_in \in WalkInputs
    /\ w_reqs = <<>>
    /\ w_to_process = {}
    /\ w_seen = {}
    /\ w_extra_specs = <<>>
    /\ w_visits = [name \in Siblings |-> 0]

WalkFrame ==
    UNCHANGED <<simplifyVars, finalVars, distVars, lockVars, getLockVars,
                resolveVars, unitVars, mergeVars>>

\* lines 684-699: the mapping output -> run requirements, over the siblings
\* other than the job whose variant matches
SiblingReqs(other_outputs) ==
    [name \in {n \in Siblings : other_outputs[n].matches} |-> other_outputs[name].run]

\* lines 683-707: the walk is made only when the job has host requirements
WalkStart ==
    /\ w_pc = "start"
    /\ IF w_in.host_requirement_names = {}
       THEN /\ w_pc' = "done"
            /\ UNCHANGED <<w_reqs, w_to_process>>
       ELSE /\ w_pc' = "loop"
            /\ w_reqs' = SiblingReqs(w_in.other_outputs)
            /\ w_to_process' = OtherOutputNames \cap w_in.host_requirement_names
    /\ UNCHANGED <<w_in, w_seen, w_extra_specs, w_visits>>
    /\ WalkFrame

Saturated(n, bound) == IF n < bound THEN n + 1 ELSE bound

\* lines 708-719: one iteration of "while to_process"; set.pop() takes any
\* element; nothing is ever added to 'seen'
WalkPop ==
    /\ w_pc = "loop"
    /\ \E name \in w_to_process :
          LET rest == w_to_process \ {name}
              followed == name # JobName /\ name \in DOMAIN w_reqs
              outside == IF followed THEN w_reqs[name] \ OtherOutputNames ELSE {}
              inside == IF followed
                        THEN {req \in w_reqs[name] \cap OtherOutputNames :
                                 req \notin w_seen}
                        ELSE {}
          IN  /\ w_to_process' = rest \cup inside
              /\ w_extra_specs' =
                    IF outside # {} /\ Len(w_extra_specs) < MaxExtraSpecs
                    THEN Append(w_extra_specs, CHOOSE req \in outside : TRUE)
                    ELSE w_extra_specs
              /\ w_visits' = IF followed
                             THEN [w_visits EXCEPT ![name] = Saturated(@, MaxVisits)]
                             ELSE w_visits
    /\ UNCHANGED <<w_pc, w_in, w_reqs, w_seen>>
    /\ WalkFrame

\* line 708: to_process is empty, the loop ends
WalkDone ==
    /\ w_pc = "loop"
    /\ w_to_process = {}
    /\ w_pc' = "done"
    /\ UNCHANGED <<w_in, w_reqs, w_to_process, w_seen, w_extra_specs, w_visits>>
    /\ WalkFrame

WalkNext ==
    \/ WalkStart
    \/ WalkPop
    \/ WalkDone

(***************************************************************************)
(* Specifications                                                          *)
(***************************************************************************)
InitSimplify == SimplifyInit /\ FinalizeIdle /\ DistIdle /\ LocksIdle /\ GetLockIdle /\ ResolveIdle
        /\ UnitIdle /\ MergeIdle /\ WalkIdle

SpecSimplify == InitSimplify /\ [][SimplifyNext]_vars

InitFinal == SimplifyIdle /\ FinalizeInit /\ DistIdle /\ LocksIdle /\ GetLockIdle /\ ResolveIdle
        /\ UnitIdle /\ MergeIdle /\ WalkIdle

SpecFinal == InitFinal /\ [][FinalizeNext]_vars

InitDist == SimplifyIdle /\ FinalizeIdle /\ DistInit /\ LocksIdle /\ GetLockIdle /\ ResolveIdle
        /\ UnitIdle /\ MergeIdle /\ WalkIdle

SpecDist == InitDist /\ [][DistNext]_vars

InitLocks == SimplifyIdle /\ FinalizeIdle /\ DistIdle /\ LocksInit /\ GetLockIdle /\ ResolveIdle
        /\ UnitIdle /\ MergeIdle /\ WalkIdle

SpecLocks == InitLocks /\ [][LocksNext]_vars

\* every caller is a running process: a step it can take is eventually taken
\* (a per-lock acquire returns or times out within 0.1 s, the body ends)
SpecLocksFair ==
    InitLocks /\ [][LocksNext]_vars /\ \A p \in Callers : WF_vars(CallerStep(p))

InitLocksInterrupt ==
    SimplifyIdle /\ FinalizeIdle /\ DistIdle /\ LocksInit /\ GetLockIdle /\ ResolveIdle
        /\ UnitIdle /\ MergeIdle /\ WalkIdle

SpecLocksInterrupt == InitLocksInterrupt /\ [][LocksInterruptNext]_vars

InitResolve ==
    SimplifyIdle /\ FinalizeIdle /\ DistIdle /\ LocksIdle /\ GetLockIdle /\ ResolveInit
        /\ UnitIdle /\ MergeIdle /\ WalkIdle

SpecResolve == InitResolve /\ [][ResolveNext]_vars

InitFilter ==
    /\ SimplifyIdle /\ FinalizeIdle /\ DistIdle /\ LocksIdle /\ GetLockIdle
    /\ ResolveIdle /\ FilterInit /\ MergeIdle /\ WalkIdle

SpecFilter == InitFilter /\ [][FilterNext]_vars

InitReadSpecs ==
    /\ SimplifyIdle /\ FinalizeIdle /\ DistIdle /\ LocksIdle /\ GetLockIdle
    /\ ResolveIdle /\ ReadSpecsInit /\ MergeIdle /\ WalkIdle

SpecReadSpecs == InitReadSpecs /\ [][ReadSpecsNext]_vars

InitPin ==
    /\ SimplifyIdle /\ FinalizeIdle /\ DistIdle /\ LocksIdle /\ GetLockIdle
    /\ ResolveIdle /\ PinInit /\ MergeIdle /\ WalkIdle

SpecPin == InitPin /\ [][PinNext]_vars

InitGetPin ==
    /\ SimplifyIdle /\ FinalizeIdle /\ DistIdle /\ LocksIdle /\ GetLockIdle
    /\ ResolveIdle /\ GetPinInit /\ MergeIdle /\ WalkIdle

SpecGetPin == InitGetPin /\ [][GetPinNext]_vars

InitHash ==
    /\ SimplifyIdle /\ FinalizeIdle /\ DistIdle /\ LocksIdle /\ GetLockIdle
    /\ ResolveIdle /\ HashInit /\ MergeIdle /\ WalkIdle

SpecHash == InitHash /\ [][HashNext]_vars

InitMerge ==
    /\ SimplifyIdle /\ FinalizeIdle /\ DistIdle /\ LocksIdle /\ GetLockIdle
    /\ ResolveIdle /\ UnitIdle /\ MergeInit /\ WalkIdle

SpecMerge == InitMerge /\ [][MergeNext]_vars

InitWalk ==
    /\ SimplifyIdle /\ FinalizeIdle /\ DistIdle /\ LocksIdle /\ GetLockIdle
    /\ ResolveIdle /\ UnitIdle /\ MergeIdle /\ WalkInit

\* finalize_metadata keeps running: a step it can take is eventually taken
SpecWalkFair == InitWalk /\ [][WalkNext]_vars /\ WF_vars(WalkNext)

InitGetLock == SimplifyIdle /\ FinalizeIdle /\ DistIdle /\ LocksIdle /\ GetLockInit /\ ResolveIdle
        /\ UnitIdle /\ MergeIdle /\ WalkIdle

SpecGetLock == InitGetLock /\ [][GetLockNext]_vars

(***************************************************************************)
(* Properties of _simplify_to_exact_constraints                            *)
(***************************************************************************)
\* an exact constraint, as a whole spec: a version without '>', '<', '*' and
\* a specific build string (one without '*')
ExactSpec(spec) ==
    /\ Len(spec) = 3
    /\ spec[2] \notin RangeVersions
    /\ spec[3] \notin GlobBuilds

Qualified(spec) == Len(spec) > 1

NamesOf(deps) == {deps[i][1] : i \in 1..Len(deps)}

Occurrences(deps, name) ==
    LET Named(spec) == spec[1] = name IN SelectSeq(deps, Named)

ExactOccurrences(deps, name) == SelectSeq(Occurrences(deps, name), ExactSpec)

QualifiedOccurrences(deps, name) == SelectSeq(Occurrences(deps, name), Qualified)

RECURSIVE MapEnsureValid(_)
MapEnsureValid(deps) ==
    IF deps = <<>> THEN <<>>
    ELSE <<EnsureValidSpec(Head(deps))>> \o MapEnsureValid(Tail(deps))

HasExactConflict(deps) ==
    \E i, j \in 1..Len(deps) :
        /\ deps[i][1] = deps[j][1]
        /\ ExactSpec(deps[i]) /\ ExactSpec(deps[j])
        /\ deps[i] # deps[j]

HasMixedName(deps) ==
    \E name \in NamesOf(deps) :
        /\ ExactOccurrences(deps, name) # <<>>
        /\ Len(ExactOccurrences(deps, name)) < Len(QualifiedOccurrences(deps, name))

\* C8: in each of build, host and run, two differing exact constraints on one
\* name make the call raise the conflicting-exact-pins error (the section that
\* holds them is not rewritten, so neither pin is silently kept); when the call
\* returns, every name with exact occurrences is left with exactly one spec,
\* the exact one. A build string is read as a specific build string (no '*').
C8_ConflictRaisesElseCollapses ==
    s_pc = "done" =>
        /\ \A section \in DOMAIN s_in :
              HasExactConflict(s_in[section]) =>
                  /\ s_raised
                  /\ s_req[section] = s_in[section]
        /\ ~s_raised =>
              \A section \in DOMAIN s_in :
                 \A name \in NamesOf(s_in[section]) :
                    ExactOccurrences(s_in[section], name) # <<>> =>
                        Occurrences(s_req[section], name)
                            = <<ExactOccurrences(s_in[section], name)[1]>>

C8_Witness ==
    /\ s_pc = "done"
    /\ s_raised
    /\ HasExactConflict(s_in["run"])
    /\ ~HasExactConflict(s_in["build"])
    /\ s_in["build"] # <<>>

\* C9 as stated: when a name has an exact occurrence together with a non-exact
\* qualified occurrence, all its qualified occurrences are retained verbatim.
C9_Original_MixedRetained ==
    (s_pc = "done" /\ ~s_raised) =>
        \A section \in DOMAIN s_in :
           \A name \in NamesOf(s_in[section]) :
              ( /\ ExactOccurrences(s_in[section], name) # <<>>
                /\ Len(ExactOccurrences(s_in[section], name))
                      < Len(QualifiedOccurrences(s_in[section], name)) )
              => Occurrences(s_req[section], name)
                    = QualifiedOccurrences(s_in[section], name)

\* C9 amended: a name is collapsed to its exact spec as soon as one of its
\* occurrences is exact (the exact ones agreeing), and its non-exact
\* occurrences are then dropped; only a name with no exact occurrence keeps
\* its qualified occurrences, each as normalised by ensure_valid_spec.
C9_ExactBypassesLessExact ==
    (s_pc = "done" /\ ~s_raised) =>
        \A section \in DOMAIN s_in :
           \A name \in NamesOf(s_in[section]) :
              LET exact == ExactOccurrences(s_in[section], name)
                  qualified == QualifiedOccurrences(s_in[section], name)
              IN  /\ (exact # <<>> /\ Len(exact) < Len(qualified)) =>
                        /\ Occurrences(s_req[section], name) = <<exact[1]>>
                        /\ \A i \in 1..Len(qualified) :
                              qualified[i] # exact[1] =>
                                 qualified[i] \notin SeqToSet(s_req[section])
                  /\ (exact = <<>> /\ qualified # <<>>) =>
                        Occurrences(s_req[section], name)
                            = MapEnsureValid(qualified)

C9_Witness ==
    /\ s_pc = "done"
    /\ ~s_raised
    /\ HasMixedName(s_in["run"])
    /\ Len(s_req["run"]) < Len(s_in["run"])

(***************************************************************************)
(* Properties of get_env_dependencies, add_upstream_pins, finalize_metadata *)
(***************************************************************************)
NamesIn(specs) == {spec[1] : spec \in specs}

\* the specs that the explicit, non-ignored requirements resolved by `call`
\* declare under `category`, less those build/ignore_run_exports names
DeclaredBy(call, explicit_names, category) ==
    {spec \in UNION {f_world[prec.name][category] :
                        prec \in {p \in call.precs :
                                    /\ p.name \in explicit_names
                                    /\ p.name \notin f_m.ignore_run_exports_from}} :
        ~Ignored(spec, f_m.ignore_run_exports)}

BuildExports(category) == DeclaredBy(f_build.call, NamesIn(f_req0["build"]), category)

HostExports(category) ==
    DeclaredBy(f_host.call,
               NamesIn(f_req0["host"]) \cup NamesIn(BuildExports("strong")),
               category)

AfterAddUpstreamPins == f_pc = "pinning"

SolverFailed(call) == call.outcome # "ok"

\* C2 as stated: with permit_unsatisfiable_variants set, the job comes back
\* final only if no solver invocation of that finalization (build, host,
\* re-resolution of the pinning environment) reported a diagnostic.
C2_FinalOnlyIfEverySolveSucceeded ==
    (f_pc = "done" /\ f_permit /\ f_final) =>
        \A i \in 1..Len(f_calls) : ~SolverFailed(f_calls[i])

\* C3: when the solver raises, get_env_dependencies returns no records and a
\* non-null diagnostic if permit_unsatisfiable_variants is set, and otherwise
\* lets the failure leave the call (and finalize_metadata) with nothing returned.
C3_SolverFailureToleratedOrPropagated ==
    \A i \in 1..Len(f_calls) :
        SolverFailed(f_calls[i]) =>
            IF f_permit
            THEN /\ ~f_calls[i].raised
                 /\ f_calls[i].precs = {}
                 /\ f_calls[i].unsat # "None"
            ELSE /\ f_calls[i].raised
                 /\ f_calls[i].deps = {} /\ f_calls[i].precs = {}
                 /\ i = Len(f_calls)
                 /\ f_pc = "raised"
                 /\ f_error = f_calls[i].outcome

C3_Witness ==
    /\ f_permit
    /\ Len(f_calls) = 2
    /\ f_calls[1].outcome = "ok"
    /\ f_calls[2].outcome = "needs_building"
    /\ f_calls[2].precs = {}
    /\ Truthy(f_calls[2].unsat)

OnlyWeakFromBuild(spec) ==
    /\ spec \in BuildExports("weak")
    /\ \A c \in Categories \ {"weak"} : spec \notin BuildExports(c)
    /\ \A c \in Categories : spec \notin HostExports(c)
    /\ spec \notin f_req0["run"]

\* C5: a spec whose only origin is the weak export of a build dependency (no
\* other category, no host dependency exports it, not in run beforehand) is in
\* run after add_upstream_pins only if build_is_host.
C5_WeakReachesRunOnlyIfBuildIsHost ==
    AfterAddUpstreamPins =>
        \A spec \in BuildExports("weak") :
            (OnlyWeakFromBuild(spec) /\ spec \in f_req["run"]) => f_m.build_is_host

C5_Witness ==
    /\ AfterAddUpstreamPins
    /\ f_m.build_is_host
    /\ OnlyWeakFromBuild(WK)
    /\ WK \in f_req["run"]

ConstrainsOnly(spec) ==
    /\ \E c \in {"strong_constrains", "weak_constrains"} :
          spec \in BuildExports(c) \cup HostExports(c)
    /\ \A c \in {"strong", "weak", "noarch"} :
          spec \notin BuildExports(c) \cup HostExports(c)
    /\ spec \notin f_req0["run"]

C7_BuildIsResolvedPlusWeak ==
    (AfterAddUpstreamPins /\ ~f_m.is_cross /\ f_m.build_is_host) =>
        f_req["build"] =
            f_build.deps \cup BuildExports(IF f_m.noarch THEN "noarch" ELSE "weak")

(***************************************************************************)
(* Properties of distribute_variants                                       *)
(***************************************************************************)
\* the projections onto the used-variables set of the matrix that is
\* distributed (for a noarch template, the matrix reduced to the newest python)
DistinctProjections ==
    {Project(d_variants[i], GetUsedVars(d_m)) : i \in DOMAIN d_variants}

JobsOfProjection(projection) ==
    {k \in DOMAIN d_result :
        Project(d_result[k].variant, GetUsedVars(d_m)) = projection}

\* C1: distribute_variants returns exactly one job per distinct projection
\* of the variant matrix onto the used-variables set: every variant of the
\* matrix has exactly one job that agrees with it on every used variable (so
\* variants that agree share a job and variants that differ have separate
\* jobs), every job is bound to a variant of the matrix, and a template that
\* uses no variable gets exactly one job.
C1_OneJobPerDistinctProjection ==
    d_pc = "done" =>
        /\ \A projection \in DistinctProjections :
              Cardinality(JobsOfProjection(projection)) = 1
        /\ \A k \in DOMAIN d_result :
              \E i \in DOMAIN d_variants : d_result[k].variant = d_variants[i]
        /\ Len(d_result) = Cardinality(DistinctProjections)
        /\ GetUsedVars(d_m) = {} => Len(d_result) = 1

\* three variants, two of which agree on the used variables: two jobs
C1_Witness ==
    /\ d_pc = "done"
    /\ ~d_m.noarch
    /\ d_m.used = {"python"}
    /\ Len(d_variants) = 3
    /\ \E i, j \in DOMAIN d_variants :
          /\ i # j
          /\ d_variants[i] # d_variants[j]
          /\ d_variants[i].python = d_variants[j].python
    /\ Len(d_result) = 2

(***************************************************************************)
(* Properties of try_acquire_locks                                         *)
(***************************************************************************)
Holds(p, lock) == l_owner[lock] = p \/ l_counter[p][lock] > 0

\* a failed attempt is over and the next one has not begun
AtRetry(p) == l_pc[p] \in {"while", "raised"} /\ l_failed[p]

\* C10: when an attempt failed on some lock of the set, the caller holds
\* none of the locks it acquired in that attempt by the time the while loop
\* is evaluated again (for the next retry or for giving up).
C10_FailedAttemptHoldsNothing ==
    \A p \in Callers :
        AtRetry(p) => \A lock \in l_attempt[p] : ~Holds(p, lock)

\* a caller took its first lock, timed out on the second and is back at the loop
C10_Witness ==
    \E p \in Callers :
        /\ l_pc[p] = "while"
        /\ l_failed[p]
        /\ l_attempt[p] # {}
        /\ \E q \in Callers \ {p} : \E lock \in LockFiles : Holds(q, lock)

HoldsWholeSet(p) ==
    \A i \in DOMAIN l_locks[p] :
        l_owner[l_locks[p][i]] = p /\ l_counter[p][l_locks[p][i]] > 0

Overlapping ==
    \E p, q \in Callers :
        /\ p # q
        /\ SeqToSet(l_locks[p]) \cap SeqToSet(l_locks[q]) # {}

\* C11: two concurrent callers, whatever the order of their lock lists, are
\* never stuck: a caller that has not finished can always take a step, every
\* caller eventually is in its body or has raised BuildLockError, and a
\* caller that raised holds no lock.
C11_NoDeadlockBodyOrError ==
    /\ [](\A p \in Callers :
            l_pc[p] \notin {"done", "raised"} => ENABLED CallerStep(p))
    /\ [](\A p \in Callers :
            l_pc[p] = "raised" => \A lock \in LockFiles : ~Holds(p, lock))
    /\ \A p \in Callers : <>(l_pc[p] \in {"body", "raised"})

\* the circular wait: each caller holds the lock the other one asks for next
C11_Witness ==
    /\ Overlapping
    /\ \A p \in Callers :
          /\ l_pc[p] = "acquire"
          /\ l_i[p] = 2
          /\ l_owner[l_locks[p][1]] = p
          /\ l_owner[l_locks[p][2]] \notin {p, Free}

\* C12: the guarded body runs only while the caller holds every lock of its
\* set; BuildLockError is raised only from the while test, by a caller none of
\* whose attempts took the whole set, and after it the call does nothing
\* more, so the body never runs.
C12_BodyHoldsWholeSet ==
    /\ [](\A p \in Callers : l_pc[p] = "body" => HoldsWholeSet(p))
    /\ [](\A p \in Callers :
            l_pc[p] = "raised" => (l_tries[p] = 0 \/ l_failed[p]))
    /\ [][\A p \in Callers :
            /\ l_pc[p] = "raised" => l_pc'[p] = "raised"
            /\ l_pc'[p] = "body" => l_pc[p] \in {"acquire", "body"}]_vars

\* one caller runs its body on two locks, the other gave up after a failed attempt
C12_Witness ==
    \E p, q \in Callers :
        /\ l_pc[p] = "body"
        /\ Len(l_locks[p]) = 2
        /\ l_pc[q] = "raised"
        /\ l_failed[q]

\* C13: when an exception other than filelock.Timeout ends the wait for a
\* lock, every lock acquired in that attempt has been released by the time
\* the exception has left try_acquire_locks.
C13_InterruptReleasesAttempt ==
    \A p \in Callers :
        l_pc[p] = "interrupted" => \A lock \in l_attempt[p] : ~Holds(p, lock)

(***************************************************************************)
(* Properties of get_lock                                                  *)
(***************************************************************************)
\* C14: within the process there are never two distinct handles for one
\* resolved location, and two calls whose folders resolve to the same
\* absolute path return the same handle.
C14_OneHandlePerLocation ==
    /\ \A i, j \in DOMAIN g_handles :
          g_handles[i].location = g_handles[j].location => i = j
    /\ \A i, j \in DOMAIN g_returned :
          (/\ g_returned[i].handle # 0
           /\ g_returned[j].handle # 0
           /\ AbsNormPath(g_returned[i].folder) = AbsNormPath(g_returned[j].folder))
            => g_returned[i].handle = g_returned[j].handle

(***************************************************************************)
(* Properties of _categorize_deps and get_env_dependencies                 *)
(***************************************************************************)
\* C15: the spec set handed to the solver holds no spec named after a
\* declared sub-output and no spec the exclusion pattern matches.
C15_SolverNeverSeesSubOutputOrExcluded ==
    r_pc \in {"returned", "raised"} =>
        \A spec \in r_out.solver_input :
            /\ spec[1] \notin r_in.m.outputs
            /\ ~ExcludeMatch(r_in.exclude, spec)

(***************************************************************************)
(* Properties of get_upstream_pins                                         *)
(***************************************************************************)
\* the requirement names of the environment as get_upstream_pins reads them:
\* the host list has by then been extended with the build's strong exports
ExplicitNames(env) ==
    IF env = "build" THEN NamesIn(f_req0["build"])
    ELSE NamesIn(f_req0["host"]) \cup NamesIn(f_build.extra_run_specs["strong"])

UpstreamPinResults == {res \in {f_build, f_host} : res.call.env # "none"}

\* C16: every spec of a merged Run-Export Set is declared, under that
\* category, by a resolved record that is an explicit requirement of the
\* environment and is not named in ignore_run_exports_from; a record pulled
\* in transitively (zlib, whose payload is ZRT) or ignored by name adds nothing.
C16_OnlyExplicitUnignoredRecordsContribute ==
    \A res \in UpstreamPinResults :
        \A category \in Categories :
            \A spec \in res.extra_run_specs[category] :
                /\ \E prec \in res.call.precs :
                      /\ prec.name \in ExplicitNames(res.call.env)
                      /\ prec.name \notin f_m.ignore_run_exports_from
                      /\ spec \in f_world[prec.name][category]
                /\ spec # ZRT

\* build resolved cc and, transitively, zlib; cc's exports were merged
C16_Witness ==
    /\ f_build.call.env = "build"
    /\ PackageRecord("zlib") \in f_build.call.precs
    /\ f_world["zlib"]["strong"] = {ZRT}
    /\ f_build.extra_run_specs["strong"] # {}

(***************************************************************************)
(* Properties of _filter_run_exports                                       *)
(***************************************************************************)
\* an ignore entry matches a spec: it is "*", the spec itself, or the spec's
\* leading tokens
EntryMatches(entry, spec) ==
    \/ entry = <<"*">>
    \/ entry = spec
    \/ Len(entry) < Len(spec) /\ \A i \in DOMAIN entry : entry[i] = spec[i]

Survives(spec, ignore_list) == \A entry \in ignore_list : ~EntryMatches(entry, spec)

\* the specs of specs_list that survive, in their original order
SurvivorsOf(specs_list, ignore_list) ==
    SelectSeq(specs_list, LAMBDA spec : Survives(spec, ignore_list))

\* C17: per category the result lists, in the original order, exactly the
\* specs that no ignore entry matches, and a category without a surviving
\* spec is absent from the result.
C17_FilterKeepsExactlyUnmatched ==
    u_pc = "returned" =>
        /\ DOMAIN u_out =
              {agent \in DOMAIN u_in.specs :
                  SurvivorsOf(u_in.specs[agent], u_in.ignore_list) # <<>>}
        /\ \A agent \in DOMAIN u_out :
              u_out[agent] = SurvivorsOf(u_in.specs[agent], u_in.ignore_list)

\* an entry that is the leading token of one spec: that spec goes, the other
\* stays, and the category emptied by the filter is gone
C17_Witness ==
    /\ u_pc = "returned"
    /\ u_in.ignore_list = {<<"rt">>}
    /\ DOMAIN u_in.specs = {"strong", "weak"}
    /\ u_in.specs["strong"] = <<<<"zz", "1.0">>, <<"rt", ">=1.0">>>>
    /\ u_in.specs["weak"] = <<<<"rt", ">=1.0">>>>
    /\ DOMAIN u_out = {"strong"}
    /\ u_out["strong"] = <<<<"zz", "1.0">>>>

(***************************************************************************)
(* Properties of _read_specs_from_package                                  *)
(***************************************************************************)
StructuredDocs(pkg) ==
    {file.content : file \in {f \in {pkg.yaml, pkg.json} : f.present}}

\* C18: for a directory and for an archive alike, a package that carries a
\* structured run-export document yields the categories of a structured
\* document it carries, whether or not the legacy file is there too.
C18_StructuredDocumentPreferred ==
    (/\ u_pc = "returned"
     /\ u_in.kind \in {"directory", "archive"}
     /\ StructuredDocs(u_in) # {})
        => u_out \in StructuredDocs(u_in)

(***************************************************************************)
(* Properties of apply_pin_expressions                                     *)
(***************************************************************************)
VersionLeq(a, b) == ~VersionOrderLess(VersionOrder_(b), VersionOrder_(a))

VersionLt(a, b) == VersionOrderLess(VersionOrder_(a), VersionOrder_(b))

\* C20: for every version and every policy whose min_pin and max_pin are
\* both non-empty, the bounds of the produced range, read back as versions,
\* satisfy lower <= version < upper.
C20_RangeContainsVersion ==
    (/\ u_pc = "returned"
     /\ u_in.min_pin > 0
     /\ u_in.max_pin > 0)
        => /\ u_out.lower # <<>>
           /\ u_out.upper # <<>>
           /\ VersionLeq(u_out.lower, u_in.version)
           /\ VersionLt(u_in.version, u_out.upper)

(***************************************************************************)
(* Properties of get_pin_from_build                                        *)
(***************************************************************************)
\* C19: get_pin_from_build rewrites a spec only when the spec has no explicit
\* version and its name is in pin_run_as_build and was resolved in the
\* pinning environment; a spec with an explicit version is returned
\* unchanged; the exception is the numpy "x.x" spec, which is pinned, or
\* raises when the build dependencies give no numpy version; nothing else
\* raises.
C19_OnlyUnversionedListedSpecsRewritten ==
    /\ (u_pc = "returned" /\ u_out # u_in.dep)
          => \/ NumpyXX(u_in.dep)
             \/ /\ u_in.dep.version.kind = "none"
                /\ u_in.dep.name \in DOMAIN u_in.m.pin_run_as_build
                /\ u_in.dep.name \in DOMAIN u_in.build_dep_versions
    /\ (u_pc = "returned" /\ u_in.dep.version.kind = "exact") => u_out = u_in.dep
    /\ u_pc = "raised"
          => /\ NumpyXX(u_in.dep)
             /\ \/ "numpy" \notin DOMAIN u_in.build_dep_versions
                \/ u_in.build_dep_versions["numpy"] = <<>>

(***************************************************************************)
(* The result of apply_pin_expressions on purely numeric versions          *)
(***************************************************************************)
\* a version of numbers and dots only
IsNumeric(text) == \A i \in DOMAIN text : text[i].k \in {"num", "dot"}

\* the number of components of a numeric version
NumComponents(text) == (Len(text) + 1) \div 2

\* the first n components of a numeric version, with their dots
FirstComponents(text, n) == SubSeq(text, 1, 2 * n - 1)

\* the first n components with the last one incremented by 1
FirstComponentsIncremented(text, n) ==
    SubSeq(text, 1, 2 * n - 2) \o <<Num(text[2 * n - 1].v + 1)>>

\* a call with min_pin = max_pin = n places on a numeric version of at least
\* n components has returned
NumericPinCase ==
    /\ u_pc = "returned"
    /\ IsNumeric(u_in.version)
    /\ u_in.min_pin = u_in.max_pin
    /\ u_in.min_pin >= 1
    /\ NumComponents(u_in.version) >= u_in.min_pin

EntrySet(enumerated) == {enumerated[i] : i \in DOMAIN enumerated}

\* C22: two enumerations of the same set of entries give the same hash input,
\* whatever the order in which the entries are enumerated.
C22_EnumerationOrderIrrelevant ==
    (u_pc = "returned" /\ EntrySet(u_in.a) = EntrySet(u_in.b))
        => u_out.a = u_out.b

\* the same two entries enumerated in two different orders have been hashed
C22_Witness ==
    /\ u_pc = "returned"
    /\ Len(u_in.a) = MaxEntries
    /\ EntrySet(u_in.a) = EntrySet(u_in.b)
    /\ u_in.a # u_in.b
    /\ u_in.skip = {}
    /\ u_out.a = u_out.b
    /\ u_out.a # <<>>

\* what the hash is meant to tell apart: name, type, and symlink target or
\* content as fed, of the entries that are not skipped
Distinguished(enumerated, skip) ==
    {[path |-> e.path, type |-> e.type,
      data |-> IF e.type = "F" THEN FileBytes(e) ELSE e.data] :
        e \in {x \in EntrySet(enumerated) : ~Skipped(x.path, skip)}}

\* C23: two trees that differ in the name, the type, the symlink target or
\* the normalized content of a non-skipped entry feed different character
\* sequences to the hasher.
C23_DistinctTreesDistinctInput ==
    (u_pc = "returned"
        /\ Distinguished(u_in.a, u_in.skip) # Distinguished(u_in.b, u_in.skip))
        => u_out.a # u_out.b

(***************************************************************************)
(* Further properties of distribute_variants                               *)
(***************************************************************************)
\* C24: a clone whose re-evaluation raised the benign stop signal has no job
\* in the returned list, and a call that another exception ended returns
\* nothing.
C24_StoppedCloneHasNoJob ==
    /\ d_pc = "done" => \A k \in DOMAIN d_result : ~d_result[k].stopped
    /\ d_pc = "raised" => d_result = <<>>

\* the minor number of a python 3 version: 3.10 is higher than 3.9
PythonMinor(python) ==
    CASE python = "3.9"  -> 9
      [] python = "3.10" -> 10

\* C25: every job of a noarch template is bound to a python version that no
\* python version of the input matrix exceeds under version ordering.
C25_NoarchJobsUseHighestPython ==
    (d_pc = "done" /\ d_m.noarch)
        => \A k \in DOMAIN d_result :
              \A i \in DOMAIN d_input :
                  PythonMinor(d_input[i].python)
                      <= PythonMinor(d_result[k].variant.python)

\* a noarch template over a matrix with 3.9 and 3.10 got jobs, all for 3.10
C25_Witness ==
    /\ d_pc = "done"
    /\ d_m.noarch
    /\ \E i \in DOMAIN d_input : d_input[i].python = "3.9"
    /\ \E i \in DOMAIN d_input : d_input[i].python = "3.10"
    /\ d_result # <<>>
    /\ \A k \in DOMAIN d_result : d_result[k].variant.python = "3.10"

(***************************************************************************)
(* Properties of merge_tree and copy_into                                  *)
(***************************************************************************)
\* C26: every write that merge_tree and copy_into make to the destination is
\* made while the writer holds its lock.
C26_EveryWriteUnderLock ==
    \A w \in m_writes : w.locked

\* C27: merge_tree with clobber=False never replaces a file that exists under
\* dst, at any depth and under any interleaving with another process.
C27_MergeNeverOverwrites ==
    \A w \in m_writes : (w.op = "merge_tree" /\ ~w.clobber) => ~w.replaced

(***************************************************************************)
(* Properties of the sibling walk of finalize_metadata                     *)
(***************************************************************************)
\* C28: the walk over sibling sub-outputs ends for every sibling dependency
\* graph, also when two variant-matching siblings other than the job list
\* each other in their run requirements.
C28_SiblingWalkTerminates == <>(w_pc = "done")

(***************************************************************************)
(* Further properties of _simplify_to_exact_constraints                    *)
(***************************************************************************)
\* C29: every dependency name that occurs in a section before the call still
\* occurs in that section after it, whether the call returns or raises.
C29_NoNameRemoved ==
    s_pc = "done" =>
        \A section \in DOMAIN s_in :
            NamesOf(s_in[section]) \subseteq NamesOf(s_req[section])

(***************************************************************************)
(* Further properties of finalize_metadata                                 *)
(***************************************************************************)
\* C30: finalize_metadata on a job whose skip condition holds returns the job
\* with final = true, without a solver call and without raising.
C30_SkippedJobReturnsFinal ==
    (f_m.skip /\ f_pc # "start")
        => /\ f_pc = "done"
           /\ f_final
           /\ f_calls = <<>>
           /\ f_error = "none"

====
